---- MODULE Spec2Model ----
(***************************************************************************)
(* A model of the gappy time-series classes of seisplotjs,                 *)
(* src/src/seismogram.js: SeismogramSegment (one run of samples, decoded   *)
(* or still encoded) and Seismogram (an ordered list of segments).         *)
(*                                                                         *)
(* Objects live in a heap: segs[i] is the SeismogramSegment with identity  *)
(* i, seis[j] the Seismogram with identity j, and a Seismogram's           *)
(* segmentArray holds segment identities, so that two Seismograms can      *)
(* share one segment object as they do in the code (trim, append).         *)
(*                                                                         *)
(* Times are moment.js values, modelled as integer milliseconds.  moment   *)
(* objects are mutable: the only in-place mutation the code performs on a  *)
(* stored moment is the add() of isContiguous, modelled where it happens.  *)
(*                                                                         *)
(* With them: SeismogramDisplayData of the same file (a Seismogram and its *)
(* cached statistics), fftForward and FFTResult of src/src/fft.ts,        *)
(* calculateCRC32C with its test of src/unnamed/part_001, and the          *)
(* DataLinkConnection of src/unnamed/part_003.  Each has its own           *)
(* specification over the shared variables: SpecSeg, Spec, SpecSdd,        *)
(* SpecCrc, SpecDl, SpecBreak (break() pass by pass) and SpecFft.          *)
(***************************************************************************)
EXTENDS Integers, Sequences, FiniteSets, TLC

VARIABLES
    segs,          \* heap of SeismogramSegment objects, by identity
    seis,          \* heap of Seismogram objects, by identity
    ret,           \* the last call: operation, receiver, argument, outcome
    decodeCalls,   \* per segment, per payload handle: decode() invocations
    decodeThrows,  \* per segment: decode() invocations that threw
    wasDecoded,    \* segments on which a read of y completed while isEncoded()
    steps,         \* calls made so far
    sdds,          \* heap of SeismogramDisplayData objects, by identity
    buf,           \* the typed array handed to calculateCRC32C or FFTResult
    dl,            \* a DataLinkConnection, its WebSockets and its promises
    brk            \* a break() call followed pass by pass: where it stands

vars == <<segs, seis, ret, decodeCalls, decodeThrows, wasDecoded, steps, sdds,
         buf, dl, brk>>

(***************************************************************************)
(* Bounds of the model.                                                    *)
(***************************************************************************)
\* Calls made on the objects of a run: on segments alone, on Seismograms.
MaxSegOps == 2
MaxOps == 2
\* Calls on SeismogramDisplayData objects.
MaxSddOps == 3
\* Bytes of a buffer handed to calculateCRC32C (the test's nine apart).
MaxBufLen == 3
\* Calls and events of a DataLinkConnection, the WebSockets it creates and
\* the commands it awaits (the ID command of each connect() included).
MaxDlOps == 7
MaxSockets == 2
MaxPromises == 3
\* break() calls followed pass by pass, and the passes of the loop followed.
MaxBreakCalls == 1
MaxBreakWindows == 4

(***************************************************************************)
(* JavaScript values.                                                      *)
(***************************************************************************)
\* null for an object-valued field (a record, as every object here is), and
\* NoId where the identity of an object is expected and there is none.
Null == [null |-> TRUE]
NoId == 0
Undefined == "undefined"

\* Number.MAX_SAFE_INTEGER is 2^53-1; TLC's integers have 32 bits, and every
\* sample of the model but Huge is far below this stand-in, so comparisons
\* agree.
MAX_SAFE_INTEGER == 16777215
NaN == 0 - MAX_SAFE_INTEGER - 1

Int32Kind == "Int32Array"
Float32Kind == "Float32Array"
Float64Kind == "Float64Array"
TypedKinds == {Int32Kind, Float32Kind, Float64Kind}

TypedArray(kind, data) == [kind |-> kind, data |-> data]

\* A moment object held in a field: its time in ms.
Moment(t) == [ms |-> t]

\* A float sample that is no integer: Half(n) is n + 1/2, for 0 <= n < Fraction
\* (the integer samples of the model are all below Fraction).
Fraction == 1000000
Half(n) == Fraction + n
IsHalf(v) == v >= Fraction /\ v < 2 * Fraction
Floor(v) == IF IsHalf(v) THEN v - Fraction ELSE v

\* A float sample above Number.MAX_SAFE_INTEGER: 2^53.
Huge == MAX_SAFE_INTEGER + 1

\* a < b on numbers; a comparison with NaN is false.
Less(a, b) ==
    /\ a # NaN
    /\ b # NaN
    /\ \/ Floor(a) < Floor(b)
       \/ Floor(a) = Floor(b) /\ ~IsHalf(a) /\ IsHalf(b)

\* What a call was given or returned, as ret keeps it: a number, a boolean,
\* or a reference to an object by its identity (NoId: null).
Number(n) == [number |-> n]
Boolean(b) == [boolean |-> b]
Ref(i) == [object |-> i]

\* out[i] = v on a typed array: ToInt32 for Int32Array (undefined and NaN
\* become 0, n + 1/2 becomes n, 2^53 becomes 0; the integer samples of the
\* model are within 32 bits, which ToInt32 keeps), NaN for an undefined stored
\* in a float array.
StoreAs(kind, v) ==
    IF kind = Int32Kind /\ (v = NaN \/ v = Huge) THEN 0
    ELSE IF kind = Int32Kind THEN Floor(v)
    ELSE v

\* Math.floor(a / b) and truncation toward zero, for b > 0.
FloorDiv(a, b) == a \div b
TruncDiv(a, b) == IF a >= 0 THEN a \div b ELSE 0 - ((0 - a) \div b)

\* moment.add(num/den, 'seconds') and moment.add(num/den, 'ms') on a moment at
\* t ms: the Date behind the moment is set to t plus the (fractional)
\* milliseconds, and Date.setTime drops the fraction toward zero.
AddSeconds(t, num, den) == TruncDiv(t * den + 1000 * num, den)
AddMillis(t, num, den) == TruncDiv(t * den + num, den)

\* F applied to the value of v: the result of a call is named once and used
\* many times, as a local variable of the code is.
Let(v, F(_)) == CHOOSE r \in {F(x) : x \in {v}} : TRUE

\* A number that need not be an integer, exactly: num/den in lowest terms,
\* den = 0 for NaN.
RECURSIVE GCD(_, _)
GCD(a, b) == IF b = 0 THEN a ELSE GCD(b, a % b)
Ratio(n, d) ==
    IF d = 0 THEN [num |-> 0, den |-> 0]
    ELSE [num |-> n \div GCD(IF n < 0 THEN 0 - n ELSE n, d),
          den |-> d \div GCD(IF n < 0 THEN 0 - n ELSE n, d)]
\* a + b, q * n and q / n (the only division by 0 of the model is 0 / 0).
Plus(a, b) ==
    IF a.den = 0 \/ b.den = 0 THEN Ratio(0, 0)
    ELSE Ratio(a.num * b.den + b.num * a.den, a.den * b.den)
Times(q, n) == Ratio(q.num * n, q.den)
Over(q, n) == IF n < 0 THEN Ratio(0 - q.num, q.den * (0 - n)) ELSE Ratio(q.num, q.den * n)

RECURSIVE SumSeq(_)
SumSeq(s) == IF s = <<>> THEN 0 ELSE Head(s) + SumSeq(Tail(s))

MinOf(S) == CHOOSE x \in S : \A y \in S : x <= y
MaxOf(S) == CHOOSE x \in S : \A y \in S : x >= y

Range(s) == {s[k] : k \in DOMAIN s}

\* TypedArray.prototype.slice(b, e) with 0-based, end-exclusive indices
\* (negative indices count from the end, out-of-range ones are clamped).
SliceSeq(s, b, e) ==
    LET n == Len(s)
        rb == IF b < 0 THEN (IF n + b < 0 THEN 0 ELSE n + b)
              ELSE (IF b > n THEN n ELSE b)
        re == IF e < 0 THEN (IF n + e < 0 THEN 0 ELSE n + e)
              ELSE (IF e > n THEN n ELSE e)
    IN  IF rb >= re THEN <<>> ELSE SubSeq(s, rb + 1, re)

(***************************************************************************)
(* seedcodec.EncodedDataSegment: a payload handle.  decode() returns the   *)
(* decompressed values or throws (unknown encoding, payload too short).    *)
(* data are the values the payload holds, numSamples the declared count.   *)
(***************************************************************************)
EncodedDataSegment(compressionType, numSamples, data, ok) ==
    [compressionType |-> compressionType, numSamples |-> numSamples,
     data |-> data, ok |-> ok]

\* decode(): numSamples values, the payload's first (what follows them is
\* padding), or a DecodingError when the payload holds fewer.
decode(c) ==
    [threw |-> ~c.ok \/ Len(c.data) < c.numSamples,
     data |-> IF Len(c.data) < c.numSamples THEN <<>> ELSE SubSeq(c.data, 1, c.numSamples)]

(***************************************************************************)
(* class SeismogramSegment                                                 *)
(***************************************************************************)
\* constructor(yArray, sampleRate, startTime).  yArray is tagged with what
\* the instanceof / Array.isArray tests of the constructor see: a typed array,
\* an Array of EncodedDataSegment (the empty Array included: every() holds
\* of it), or a non-empty Array of numbers.  _compressed keeps the Array of
\* handles (its elements are compressed.data).  yBuffer is the identity of
\* the array object _y refers to: NoId while there is none, and for an array
\* new in the running call, which gets its number when the call ends (Held).
SeismogramSegment(yArray, sampleRate, startTime) ==
    [y |-> IF yArray.kind \in TypedKinds THEN TypedArray(yArray.kind, yArray.data)
           ELSE IF yArray.kind = "EncodedArray" THEN Null
           ELSE TypedArray(Float64Kind, yArray.data),
     compressed |-> IF yArray.kind = "EncodedArray" THEN yArray ELSE Null,
     sampleRate |-> sampleRate,
     startTime |-> startTime,
     yUnit |-> "count",
     yBuffer |-> NoId,
     endTime_cache |-> Null,
     endTime_cache_numPoints |-> 0,
     networkCode |-> Undefined,
     stationCode |-> Undefined,
     locationCode |-> Undefined,
     channelCode |-> Undefined]

\* get numPoints
Seg_numPoints(s) ==
    IF s.y # Null THEN Len(s.y.data)
    ELSE IF s.compressed # Null
         THEN SumSeq([k \in DOMAIN s.compressed.data |->
                         s.compressed.data[k].numSamples])
         ELSE 0

isEncoded(s) ==
    IF s.y # Null /\ Len(s.y.data) > 0 THEN FALSE
    ELSE IF s.compressed # Null /\ Len(s.compressed.data) > 0 THEN TRUE
    ELSE FALSE

\* getEncoded(): the handles, or throws "Data is not encoded."
getEncoded(s) ==
    IF isEncoded(s) THEN [threw |-> FALSE, val |-> s.compressed]
    ELSE [threw |-> TRUE, val |-> Null]

timeOfSample(s, i) == AddSeconds(s.startTime, i, s.sampleRate)

NoCalls == <<>>

\* Pointwise sum of two per-handle call counts (NoCalls: no decode() at all).
PlusCalls(a, b) ==
    IF b = NoCalls THEN a
    ELSE IF a = NoCalls THEN b
    ELSE [k \in DOMAIN a |-> a[k] + b[k]]

\* What a getter or method of a segment did: the segment after the call, what
\* it returned (val) or that it threw, and the decode() invocations it made.
SegResult(s, threw, val, calls) ==
    [seg |-> s, threw |-> threw, val |-> val, calls |-> calls]

\* The values one handle contributes to out (lines 102-104): cData[i] for
\* i < numSamples, undefined past the end of cData.
DecodedPart(c, kind, cData) ==
    [i \in 1..c.numSamples |->
        StoreAs(kind, IF i <= Len(cData) THEN cData[i] ELSE NaN)]

\* The loop of get y (lines 99-106): decode() of each handle in turn; a
\* decode() that throws ends the getter there.
RECURSIVE DecodeLoop(_, _, _, _, _)
DecodeLoop(cs, k, kind, out, calls) ==
    IF k > Len(cs) THEN [threw |-> FALSE, out |-> out, calls |-> calls]
    ELSE Let(decode(cs[k]), LAMBDA d :
           IF d.threw
           THEN [threw |-> TRUE, out |-> out, calls |-> [calls EXCEPT ![k] = @ + 1]]
           ELSE DecodeLoop(cs, k + 1, kind, out \o DecodedPart(cs[k], kind, d.data),
                           [calls EXCEPT ![k] = @ + 1]))

\* The kind of typed array get y allocates (lines 92-98).
DecodedKind(cs) ==
    IF cs[1].compressionType = "DOUBLE" THEN Float64Kind
    ELSE IF cs[1].compressionType = "FLOAT" THEN Float32Kind
    ELSE Int32Kind

\* get y as it would be without lines 107-108: the decoded samples returned
\* and not kept.
Seg_y_NoMemo(s) ==
    IF s.y # Null THEN SegResult(s, FALSE, s.y, NoCalls)
    ELSE IF ~isEncoded(s) THEN SegResult(s, TRUE, Null, NoCalls)
    ELSE Let(DecodeLoop(s.compressed.data, 1, DecodedKind(s.compressed.data), <<>>,
                        [k \in DOMAIN s.compressed.data |-> 0]), LAMBDA d :
           IF d.threw THEN SegResult(s, TRUE, Null, d.calls)
           ELSE SegResult(s, FALSE,
                          TypedArray(DecodedKind(s.compressed.data), d.out), d.calls))

\* get y as it would be if a failed decode() were padded over: zeros returned
\* and kept.
Seg_y_Padded(s) ==
    IF s.y # Null THEN SegResult(s, FALSE, s.y, NoCalls)
    ELSE IF ~isEncoded(s) THEN SegResult(s, TRUE, Null, NoCalls)
    ELSE Let(DecodeLoop(s.compressed.data, 1, DecodedKind(s.compressed.data), <<>>,
                        [k \in DOMAIN s.compressed.data |-> 0]), LAMBDA d :
           SegResult([s EXCEPT !.y = TypedArray(DecodedKind(s.compressed.data),
                                        IF d.threw THEN [k \in 1..Seg_numPoints(s) |-> 0]
                                        ELSE d.out),
                               !.compressed = Null],
                     FALSE,
                     TypedArray(DecodedKind(s.compressed.data),
                                IF d.threw THEN [k \in 1..Seg_numPoints(s) |-> 0]
                                ELSE d.out),
                     d.calls))

\* get y: the samples, decoding the handles on the first read.
Seg_y(s) ==
    IF s.y # Null THEN SegResult(s, FALSE, s.y, NoCalls)
    ELSE IF ~isEncoded(s) THEN SegResult(s, TRUE, Null, NoCalls)
    ELSE Let(DecodeLoop(s.compressed.data, 1, DecodedKind(s.compressed.data), <<>>,
                        [k \in DOMAIN s.compressed.data |-> 0]), LAMBDA d :
           IF d.threw THEN SegResult(s, TRUE, Null, d.calls)
           ELSE SegResult([s EXCEPT !.y = TypedArray(DecodedKind(s.compressed.data),
                                                     d.out),
                                    !.compressed = Null],
                          FALSE, TypedArray(DecodedKind(s.compressed.data), d.out),
                          d.calls))

invalidate_endTime_cache(s) ==
    [s EXCEPT !.endTime_cache = Null, !.endTime_cache_numPoints = 0]

\* set y(value)
Seg_set_y(s, value) ==
    invalidate_endTime_cache([s EXCEPT !.y = value, !.yBuffer = NoId])

\* set startTime(value)
Seg_set_startTime(s, value) ==
    invalidate_endTime_cache([s EXCEPT !.startTime = value])

\* set sampleRate(value)
Seg_set_sampleRate(s, value) ==
    invalidate_endTime_cache([s EXCEPT !.sampleRate = value])

\* get endTime: recomputed when there is no cached moment or the sample count
\* changed; the cached moment itself is what the getter returns.
Seg_endTime(s) ==
    IF s.endTime_cache = Null \/ s.endTime_cache_numPoints # Seg_numPoints(s)
    THEN Let(Seg_numPoints(s), LAMBDA n :
           [seg |-> [s EXCEPT !.endTime_cache_numPoints = n,
                              !.endTime_cache = Moment(timeOfSample(s, n - 1))],
            val |-> timeOfSample(s, n - 1)])
    ELSE [seg |-> s, val |-> s.endTime_cache.ms]

\* yAtIndex(i): this.y[i], undefined outside the array.
yAtIndex(s, i) ==
    Let(Seg_y(s), LAMBDA r :
      SegResult(r.seg, r.threw,
                IF r.threw THEN Null
                ELSE IF i >= 0 /\ i < Len(r.val.data) THEN Number(r.val.data[i + 1])
                ELSE [undefined |-> TRUE],
                r.calls))

\* The scan of findMinMax (lines 193-200); a comparison with NaN is false.
RECURSIVE MinMaxScan(_, _, _, _)
MinMaxScan(data, n, minAmp, maxAmp) ==
    IF n > Len(data) THEN <<minAmp, maxAmp>>
    ELSE MinMaxScan(data, n + 1,
            IF Less(data[n], minAmp) THEN data[n] ELSE minAmp,
            IF Less(maxAmp, data[n]) THEN data[n] ELSE maxAmp)

\* findMinMax(minMaxAccumulator?): Null stands for the omitted accumulator;
\* the Array [min, max] is its two elements in data.
Seg_findMinMax(s, minMaxAccumulator) ==
    Let(Seg_y(s), LAMBDA r :
      SegResult(r.seg, r.threw,
                IF r.threw THEN Null
                ELSE [kind |-> "NumberArray",
                      data |-> MinMaxScan(r.val.data, 1,
                                  IF minMaxAccumulator # Null
                                  THEN minMaxAccumulator.data[1]
                                  ELSE MAX_SAFE_INTEGER,
                                  IF minMaxAccumulator # Null
                                  THEN minMaxAccumulator.data[2]
                                  ELSE 0 - MAX_SAFE_INTEGER)],
                r.calls))

\* cloneWithNewData(clonedData, clonedStartTime = this._startTime)
cloneWithNewData(s, clonedData, clonedStartTime) ==
    [SeismogramSegment(clonedData, s.sampleRate, clonedStartTime)
        EXCEPT !.networkCode = s.networkCode,
               !.stationCode = s.stationCode,
               !.locationCode = s.locationCode,
               !.channelCode = s.channelCode,
               !.yUnit = s.yUnit]

\* clone() as it would be without the slice() of line 226: the clone refers
\* to the array object of the original.
Seg_clone_Shared(s) ==
    IF s.y # Null
    THEN [threw |-> FALSE,
          val |-> [cloneWithNewData(s, s.y, s.startTime) EXCEPT !.yBuffer = s.yBuffer]]
    ELSE IF isEncoded(s)
    THEN [threw |-> FALSE, val |-> cloneWithNewData(s, s.compressed, s.startTime)]
    ELSE [threw |-> TRUE, val |-> Null]

\* clone(): a copy of the samples (slice() makes a new array object), or a
\* shallow copy of the handle array; it throws when there is neither (no _y
\* and an empty handle array).
Seg_clone(s) ==
    IF s.y # Null
    THEN [threw |-> FALSE, val |-> cloneWithNewData(s, s.y, s.startTime)]
    ELSE IF isEncoded(s)
    THEN [threw |-> FALSE, val |-> cloneWithNewData(s, s.compressed, s.startTime)]
    ELSE [threw |-> TRUE, val |-> Null]

\* StartEndDuration (src/util, not among the sources): a window with a start,
\* an end and end = start + duration.
StartEndDuration(startTime, duration) ==
    [startTime |-> startTime, endTime |-> startTime + duration]

Window(startTime, endTime) == [startTime |-> startTime, endTime |-> endTime]

\* sIndex of cut (lines 252-257)
cut_sIndex(s, timeWindow) ==
    IF timeWindow.startTime > s.startTime
    THEN FloorDiv((timeWindow.startTime - s.startTime) * s.sampleRate, 1000)
    ELSE 0

\* eIndex of cut (lines 258-263), len the length of y and endTime what the
\* endTime getter returned.
cut_eIndex(s, timeWindow, len, endTime) ==
    IF timeWindow.endTime < endTime
    THEN len - FloorDiv((endTime - timeWindow.endTime) * s.sampleRate, 1000)
    ELSE len

\* Lines 264-269 of cut: the slice and the new segment.
cut_slice(s, y, sIndex, eIndex) ==
    cloneWithNewData(s, TypedArray(y.kind, SliceSeq(y.data, sIndex, eIndex)),
                     AddSeconds(s.startTime, sIndex, s.sampleRate))

\* cut as it would be if the slice replaced the receiver's samples as well.
Seg_cut_InPlace(s, timeWindow) ==
    IF timeWindow.endTime < s.startTime THEN SegResult(s, FALSE, Null, NoCalls)
    ELSE Let(Seg_endTime(s), LAMBDA e :
      IF timeWindow.startTime > e.val THEN SegResult(e.seg, FALSE, Null, NoCalls)
      ELSE Let(Seg_y(e.seg), LAMBDA r :
        IF r.threw THEN SegResult(r.seg, TRUE, Null, r.calls)
        ELSE SegResult([r.seg EXCEPT !.y =
                           cut_slice(r.seg, r.val, cut_sIndex(r.seg, timeWindow),
                                     cut_eIndex(r.seg, timeWindow, Len(r.val.data),
                                                e.val)).y],
                       FALSE,
                       cut_slice(r.seg, r.val, cut_sIndex(r.seg, timeWindow),
                                 cut_eIndex(r.seg, timeWindow, Len(r.val.data), e.val)),
                       r.calls)))

\* cut(timeWindow): val is the new segment or Null; seg is the receiver after
\* the call (its end-time cache filled, its handles decoded).  The reads of
\* this.endTime at lines 259-260 return the moment the read at line 249
\* cached: get y leaves numPoints as it was.
Seg_cut(s, timeWindow) ==
    IF timeWindow.endTime < s.startTime THEN SegResult(s, FALSE, Null, NoCalls)
    ELSE Let(Seg_endTime(s), LAMBDA e :
      IF timeWindow.startTime > e.val THEN SegResult(e.seg, FALSE, Null, NoCalls)
      ELSE Let(Seg_y(e.seg), LAMBDA r :
        IF r.threw THEN SegResult(r.seg, TRUE, Null, r.calls)
        ELSE SegResult(r.seg, FALSE,
                       cut_slice(r.seg, r.val, cut_sIndex(r.seg, timeWindow),
                                 cut_eIndex(r.seg, timeWindow, Len(r.val.data), e.val)),
                       r.calls)))

(***************************************************************************)
(* The world an operation runs in: both heaps and the decode() history.    *)
(* Every operation below maps a world to the world after the call, with    *)
(* what it returned (val) or that it threw; the state it changed before    *)
(* throwing stays changed, as in JavaScript.                               *)
(***************************************************************************)
World(sg, ss, calls, throws) ==
    [segs |-> sg, seis |-> ss, calls |-> calls, throws |-> throws]

Result(w, threw, val) == [w |-> w, threw |-> threw, val |-> val]

\* A new SeismogramSegment object enters the heap.
AllocSeg(w, s) ==
    [w EXCEPT !.segs = Append(@, s),
              !.calls = Append(@, IF s.compressed # Null
                                  THEN [k \in DOMAIN s.compressed.data |-> 0]
                                  ELSE NoCalls),
              !.throws = Append(@, 0)]

\* A new Seismogram object enters the heap.
AllocSeis(w, g) == [w EXCEPT !.seis = Append(@, g)]

\* segs[i].endTime
W_endTime(w, i) ==
    Let(Seg_endTime(w.segs[i]), LAMBDA r :
      Result([w EXCEPT !.segs[i] = r.seg], FALSE, r.val))

\* What a segment-level call that may read y (get y, yAtIndex, findMinMax,
\* cut) did to segment i, written back to the world.
W_after(w, i, r) ==
    [w EXCEPT !.segs[i] = r.seg,
              !.calls[i] = PlusCalls(@, r.calls),
              !.throws[i] = @ + (IF r.threw /\ r.calls # NoCalls THEN 1 ELSE 0)]

\* segs[i].y
W_y(w, i) ==
    Let(Seg_y(w.segs[i]), LAMBDA r : Result(W_after(w, i, r), r.threw, r.val))

\* segs[i].y[index] = value, once segs[i].y is read: the element of the array
\* object is assigned, in every segment that refers to this object (an index
\* past the end: nothing).
writeSample(sg, i, index, value) ==
    [n \in DOMAIN sg |->
        IF /\ sg[n].y # Null
           /\ index < Len(sg[n].y.data)
           /\ \/ n = i
              \/ sg[n].yBuffer # NoId /\ sg[n].yBuffer = sg[i].yBuffer
        THEN [sg[n] EXCEPT !.y.data[index + 1] = StoreAs(sg[n].y.kind, value)]
        ELSE sg[n]]

W_writeSample(w, i, index, value) ==
    Let(W_y(w, i), LAMBDA r :
      IF r.threw THEN Result(r.w, TRUE, Null)
      ELSE Result([r.w EXCEPT !.segs = writeSample(@, i, index, value)],
                  FALSE, Null))

\* segs[i].cut(timeWindow): val is the identity of the new segment, or NoId.
W_cut(w, i, timeWindow) ==
    Let(Seg_cut(w.segs[i], timeWindow), LAMBDA r :
      IF r.threw \/ r.val = Null
      THEN Result(W_after(w, i, r), r.threw, NoId)
      ELSE Result(AllocSeg(W_after(w, i, r), r.val), FALSE, Len(w.segs) + 1))

(***************************************************************************)
(* class Seismogram                                                        *)
(***************************************************************************)
\* checkSimilar(f, s) throws exactly when this holds.
checkSimilar_throws(f, s) ==
    \/ s.networkCode # f.networkCode
    \/ s.stationCode # f.stationCode
    \/ s.locationCode # f.locationCode
    \/ s.channelCode # f.channelCode
    \/ s.yUnit # f.yUnit
    \/ s.sampleRate # f.sampleRate

\* checkAllSimilar() throws exactly when this holds.
checkAllSimilar_throws(w, segmentArray) ==
    \/ Len(segmentArray) = 0
    \/ \E k \in DOMAIN segmentArray :
          checkSimilar_throws(w.segs[segmentArray[1]], w.segs[segmentArray[k]])

\* The reads of seis.endTime that a map or filter over the segments makes,
\* in array order.
RECURSIVE ReadEndTimes(_, _, _)
ReadEndTimes(w, segmentArray, k) ==
    IF k > Len(segmentArray) THEN w
    ELSE ReadEndTimes(W_endTime(w, segmentArray[k]).w, segmentArray, k + 1)

\* moment.min(allStart) and moment.max(allEnd) of findStartEnd, the end
\* times being what the endTime getter of each segment just returned.
allStart_min(w, segmentArray) ==
    MinOf({w.segs[i].startTime : i \in Range(segmentArray)})
allEnd_max(w, segmentArray) ==
    MaxOf({w.segs[i].endTime_cache.ms : i \in Range(segmentArray)})

\* new Seismogram(segmentArray), segmentArray an Array of segment identities
\* (a single SeismogramSegment argument is the one-element Array):
\* checkAllSimilar(), then findStartEnd(), whose bounds are fresh moments
\* (moment.utc(...) copies).  val is the identity of the new Seismogram.
Seismogram(w, segmentArray) ==
    IF Len(segmentArray) = 0 \/ checkAllSimilar_throws(w, segmentArray)
    THEN Result(w, TRUE, NoId)
    ELSE Let(ReadEndTimes(w, segmentArray, 1), LAMBDA w1 :
           Result(AllocSeis(w1, [segmentArray |-> segmentArray,
                                 startTime |-> allStart_min(w1, segmentArray),
                                 endTime |-> allEnd_max(w1, segmentArray),
                                 y |-> Null]),
                  FALSE, Len(w.seis) + 1))

\* get numPoints
Seis_numPoints(w, j) ==
    SumSeq([k \in DOMAIN w.seis[j].segmentArray |->
               Seg_numPoints(w.segs[w.seis[j].segmentArray[k]])])

\* A push that puts the segment in front of the list instead of at its end.
append_unshift(e, j, i) ==
    [e.w EXCEPT !.seis[j] =
        [@ EXCEPT !.startTime = IF e.w.segs[i].startTime < @
                                THEN e.w.segs[i].startTime ELSE @,
                  !.endTime = IF e.val > @ THEN e.val ELSE @,
                  !.segmentArray = <<i>> \o @]]

\* Lines 411-413 of append: the bounds widened, the segment pushed.  e is the
\* world after the read of seismogram.endTime with the value read.
append_push(e, j, i) ==
    [e.w EXCEPT !.seis[j] =
        [@ EXCEPT !.startTime = IF e.w.segs[i].startTime < @
                                THEN e.w.segs[i].startTime ELSE @,
                  !.endTime = IF e.val > @ THEN e.val ELSE @,
                  !.segmentArray = Append(@, i)]]

\* append(seismogram) with a SeismogramSegment argument, segment identity i.
\* An empty receiver has no first segment: checkSimilar then fails on
\* f.networkCode (a TypeError).
append_segment(w, j, i) ==
    IF Len(w.seis[j].segmentArray) = 0
       \/ checkSimilar_throws(w.segs[w.seis[j].segmentArray[1]], w.segs[i])
    THEN Result(w, TRUE, Null)
    ELSE Result(append_push(W_endTime(w, i), j, i), FALSE, Null)

\* The forEach of append over the argument's segments: the elements the
\* array held when forEach began, in order, up to the first that throws.
RECURSIVE append_each(_, _, _, _)
append_each(w, j, ids, k) ==
    IF k > Len(ids) THEN Result(w, FALSE, Null)
    ELSE Let(append_segment(w, j, ids[k]), LAMBDA a :
           IF a.threw THEN a ELSE append_each(a.w, j, ids, k + 1))

\* append(seismogram) with a Seismogram argument, identity o.
append_seismogram(w, j, o) == append_each(w, j, w.seis[o].segmentArray, 1)

\* The two filters of trim: segments that end after the window's start, and
\* of those the ones that start before the window's end.
trim_filter(w, segmentArray, timeWindow) ==
    SelectSeq(segmentArray,
              LAMBDA i : /\ w.segs[i].endTime_cache.ms > timeWindow.startTime
                         /\ w.segs[i].startTime < timeWindow.endTime)

\* trim(timeWindow): val is the identity of the new Seismogram, or NoId.  The
\* first filter reads endTime of every segment.
Seis_trim(w, j, timeWindow) ==
    Let(ReadEndTimes(w, w.seis[j].segmentArray, 1), LAMBDA w1 :
      IF Len(trim_filter(w1, w.seis[j].segmentArray, timeWindow)) > 0
      THEN Seismogram(w1, trim_filter(w1, w.seis[j].segmentArray, timeWindow))
      ELSE Result(w1, FALSE, NoId))

\* map(seg => seg.cut(timeWindow)) over segmentArray from index k: the
\* identities of the pieces, NoId where cut returned null.
RECURSIVE cut_each(_, _, _, _, _)
cut_each(w, segmentArray, timeWindow, k, out) ==
    IF k > Len(segmentArray) THEN Result(w, FALSE, out)
    ELSE Let(W_cut(w, segmentArray[k], timeWindow), LAMBDA c :
           IF c.threw THEN Result(c.w, TRUE, out)
           ELSE cut_each(c.w, segmentArray, timeWindow, k + 1, Append(out, c.val)))

\* filter(Boolean)
NonNull(s) == SelectSeq(s, LAMBDA x : x # NoId)

\* cut(timeWindow): the coarse trim first, then every segment of this cut to
\* the window; when no piece is left the trimmed Seismogram is returned.
\* The Seismogram that trim built and cut then replaces is garbage and is
\* not kept in the heap.
Seis_cut(w, j, timeWindow) ==
    Let(Seis_trim(w, j, timeWindow), LAMBDA t :
      IF t.threw \/ t.val = NoId THEN t
      ELSE Let(cut_each([t.w EXCEPT !.seis = w.seis], w.seis[j].segmentArray,
                        timeWindow, 1, <<>>), LAMBDA c :
             IF c.threw THEN Result(c.w, TRUE, NoId)
             ELSE IF Len(NonNull(c.val)) > 0 THEN Seismogram(c.w, NonNull(c.val))
             ELSE Result([c.w EXCEPT !.seis = t.w.seis], FALSE, t.val)))

\* The while loop of break from breakStart on.
RECURSIVE break_loop(_, _, _, _, _)
break_loop(w, j, breakStart, duration, out) ==
    IF ~(breakStart < w.seis[j].endTime) THEN Result(w, FALSE, out)
    ELSE Let(cut_each(w, w.seis[j].segmentArray,
                      StartEndDuration(breakStart, duration), 1, <<>>), LAMBDA c :
           IF c.threw THEN Result(c.w, TRUE, out)
           ELSE break_loop(c.w, j, breakStart + duration, duration, out \o c.val))

\* break(duration), duration > 0 ms: the segment list is replaced in place by
\* the pieces; the bounds _startTime and _endTime and _y are left as they are.
break(w, j, duration) ==
    Let(break_loop(w, j, w.seis[j].startTime, duration, <<>>), LAMBDA b :
      IF b.threw THEN Result(b.w, TRUE, Null)
      ELSE Result([b.w EXCEPT !.seis[j].segmentArray = NonNull(b.val)], FALSE, Null))

\* prev.endTime.add(1000*1.5/prev.sampleRate, 'ms'): add() changes the moment
\* it is called on, which is the segment's cached end time.
endTime_add(s) ==
    [s EXCEPT !.endTime_cache = Moment(AddMillis(@.ms, 1500, s.sampleRate))]

\* The second conjunct of line 478 once the first held: prev.endTime moved
\* by a period and a half, then compared with s.startTime.
isContiguous_near(w, prev, s) ==
    Result([w EXCEPT !.segs[prev] = endTime_add(@)], FALSE,
           AddMillis(w.segs[prev].endTime_cache.ms, 1500, w.segs[prev].sampleRate)
               > w.segs[s].startTime)

\* The for loop of isContiguous from index k on, prev the previous segment
\* (NoId at first).  The first conjunct false: nothing is added.
RECURSIVE isContiguous_loop(_, _, _, _)
isContiguous_loop(w, segmentArray, k, prev) ==
    IF k > Len(segmentArray) THEN Result(w, FALSE, TRUE)
    ELSE IF prev = NoId
    THEN isContiguous_loop(w, segmentArray, k + 1, segmentArray[k])
    ELSE Let(W_endTime(w, prev), LAMBDA e :
           IF ~(e.val < e.w.segs[segmentArray[k]].startTime)
           THEN Result(e.w, FALSE, FALSE)
           ELSE Let(isContiguous_near(e.w, prev, segmentArray[k]), LAMBDA a :
                  IF ~a.val THEN Result(a.w, FALSE, FALSE)
                  ELSE isContiguous_loop(a.w, segmentArray, k + 1, segmentArray[k])))

isContiguous(w, j) ==
    IF Len(w.seis[j].segmentArray) = 1 THEN Result(w, FALSE, TRUE)
    ELSE isContiguous_loop(w, w.seis[j].segmentArray, 1, NoId)

\* The forEach of merge from index k on: every sample of every segment in
\* turn, stored into outArray.
RECURSIVE merge_loop(_, _, _, _, _)
merge_loop(w, segmentArray, k, kind, out) ==
    IF k > Len(segmentArray) THEN Result(w, FALSE, out)
    ELSE Let(W_y(w, segmentArray[k]), LAMBDA r :
           IF r.threw THEN Result(r.w, TRUE, out)
           ELSE merge_loop(r.w, segmentArray, k + 1, kind,
                           out \o [i \in DOMAIN r.val.data |->
                                     StoreAs(kind, r.val.data[i])]))

\* outArray of merge: numPoints elements, zero where nothing was stored (a
\* store past the length does nothing).
merge_outArray(kind, n, stored) ==
    TypedArray(kind, [i \in 1..n |-> IF i <= Len(stored) THEN stored[i] ELSE 0])

\* merge(): one typed array of the first segment's kind and of numPoints
\* samples.  An empty segment list has no first segment (a TypeError).
merge(w, j) ==
    IF Len(w.seis[j].segmentArray) = 0 THEN Result(w, TRUE, Null)
    ELSE Let(W_y(w, w.seis[j].segmentArray[1]), LAMBDA f :
           IF f.threw THEN Result(f.w, TRUE, Null)
           ELSE Let(merge_loop(f.w, w.seis[j].segmentArray, 1, f.val.kind, <<>>),
                    LAMBDA m :
                  IF m.threw THEN Result(m.w, TRUE, Null)
                  ELSE Result(m.w, FALSE,
                              merge_outArray(f.val.kind, Seis_numPoints(f.w, j),
                                             m.val))))

\* get y: the merged samples, kept in _y once computed; throws when there is
\* no _y and the segments are not contiguous.
Seis_y(w, j) ==
    IF w.seis[j].y # Null THEN Result(w, FALSE, w.seis[j].y)
    ELSE Let(isContiguous(w, j), LAMBDA c :
           IF ~c.val THEN Result(c.w, TRUE, Null)
           ELSE Let(merge(c.w, j), LAMBDA m :
                  IF m.threw THEN Result(m.w, TRUE, Null)
                  ELSE Result([m.w EXCEPT !.seis[j].y = m.val], FALSE, m.val)))

\* The sum of the numbers of data (reduce with +, from 0).
RECURSIVE TwiceSum(_)
TwiceSum(data) ==
    IF data = <<>> THEN 0
    ELSE 2 * Floor(Head(data)) + (IF IsHalf(Head(data)) THEN 1 ELSE 0)
         + TwiceSum(Tail(data))
SumOf(data) == IF NaN \in Range(data) THEN Ratio(0, 0) ELSE Ratio(TwiceSum(data), 2)

\* util.meanOfSlice(dataSlice, totalPts): the sum of the slice over totalPts,
\* the average of the slice when totalPts is its length.
meanOfSlice(dataSlice, totalPts) == Over(SumOf(dataSlice), totalPts)

\* The for loop of mean from index k on: meanVal grows by each segment's
\* average times its numPoints.
RECURSIVE mean_loop(_, _, _, _)
mean_loop(w, segments, k, meanVal) ==
    IF k > Len(segments) THEN Result(w, FALSE, meanVal)
    ELSE Let(W_y(w, segments[k]), LAMBDA r :
           IF r.threw THEN Result(r.w, TRUE, Null)
           ELSE mean_loop(r.w, segments, k + 1,
                          Plus(meanVal,
                               Times(meanOfSlice(r.val.data, Len(r.val.data)),
                                     Seg_numPoints(r.w.segs[segments[k]])))))

\* The mutant: the sum of the segments' averages over the number of segments.
Seis_mean_PerSegment(w, j) ==
    Let(mean_loop(w, w.seis[j].segmentArray, 1, Ratio(0, 1)), LAMBDA m :
      IF m.threw THEN m
      ELSE Result(m.w, FALSE,
                  Over(Over(m.val, Seis_numPoints(w, j)) ,
                       Len(w.seis[j].segmentArray))))

\* mean(): npts is read first, then the loop, then meanVal / npts.
Seis_mean(w, j) ==
    Let(mean_loop(w, w.seis[j].segmentArray, 1, Ratio(0, 1)), LAMBDA m :
      IF m.threw THEN m
      ELSE Result(m.w, FALSE, Over(m.val, Seis_numPoints(w, j))))

\* The for loop of findMinMax from index k on: each segment's findMinMax is
\* given what the one before returned.
RECURSIVE findMinMax_loop(_, _, _, _)
findMinMax_loop(w, segmentArray, k, minMaxAccumulator) ==
    IF k > Len(segmentArray) THEN Result(w, FALSE, minMaxAccumulator)
    ELSE Let(Seg_findMinMax(w.segs[segmentArray[k]], minMaxAccumulator), LAMBDA r :
           IF r.threw THEN Result(W_after(w, segmentArray[k], r), TRUE, Null)
           ELSE findMinMax_loop(W_after(w, segmentArray[k], r), segmentArray,
                                k + 1, r.val))

\* findMinMax(minMaxAccumulator?)
Seis_findMinMax(w, j, minMaxAccumulator) ==
    IF Len(w.seis[j].segmentArray) = 0 THEN Result(w, TRUE, Null)
    ELSE findMinMax_loop(w, w.seis[j].segmentArray, 1, minMaxAccumulator)

\* fftForward(seis) of a Seismogram: the display data made of it holds it, so
\* the transform is taken when isContiguous() holds, of its y, and the call
\* throws when it does not hold or the read of y throws.  The result is known
\* here by the numPoints it is created with.
fftForward(w, j) ==
    Let(isContiguous(w, j), LAMBDA c :
      IF ~c.val THEN Result(c.w, TRUE, Null)
      ELSE Let(Seis_y(c.w, j), LAMBDA y :
             IF y.threw THEN Result(y.w, TRUE, Null)
             ELSE Result(y.w, FALSE, [origLength |-> Seis_numPoints(y.w, j)])))

\* map(s => s.clone()) from index k on.
RECURSIVE clone_each(_, _, _, _)
clone_each(w, segmentArray, k, out) ==
    IF k > Len(segmentArray) THEN Result(w, FALSE, out)
    ELSE Let(Seg_clone(w.segs[segmentArray[k]]), LAMBDA c :
           IF c.threw THEN Result(w, TRUE, out)
           ELSE clone_each(AllocSeg(w, c.val), segmentArray, k + 1,
                           Append(out, Len(w.segs) + 1)))

\* clone()
Seis_clone(w, j) ==
    Let(clone_each(w, w.seis[j].segmentArray, 1, <<>>), LAMBDA c :
      IF c.threw THEN Result(c.w, TRUE, NoId) ELSE Seismogram(c.w, c.val))

\* cloneWithNewData(newY)
Seis_cloneWithNewData(w, j, newY) ==
    IF newY = Null \/ Len(newY.data) = 0 \/ Len(w.seis[j].segmentArray) = 0
    THEN Result(w, TRUE, NoId)
    ELSE Seismogram(AllocSeg(w, cloneWithNewData(w.segs[w.seis[j].segmentArray[1]],
                                newY, w.segs[w.seis[j].segmentArray[1]].startTime)),
                    <<Len(w.segs) + 1>>)

\* set networkCode / stationCode / locationCode / channelCode (value): the
\* field of every segment is assigned.
RECURSIVE set_code_each(_, _, _, _, _)
set_code_each(sg, segmentArray, k, field, value) ==
    IF k > Len(segmentArray) THEN sg
    ELSE set_code_each([sg EXCEPT ![segmentArray[k]][field] = value],
                       segmentArray, k + 1, field, value)

Seis_set_code(w, j, field, value) ==
    [w EXCEPT !.segs = set_code_each(@, w.seis[j].segmentArray, 1, field, value)]

(***************************************************************************)
(* class SeismogramDisplayData.  seismogram is the identity of the         *)
(* Seismogram in _seismogram (NoId: null), statsCache the stats object in  *)
(* _statsCache.  calcs counts the calcStats() calls that returned since    *)
(* the last assignment to seismogram.                                      *)
(***************************************************************************)
\* constructor(timeWindow)
SeismogramDisplayData(timeWindow) ==
    [seismogram |-> NoId, label |-> Null, markerList |-> <<>>, channel |-> Null,
     instrumentSensitivity |-> Null, quakeList |-> <<>>, timeWindow |-> timeWindow,
     alignmentTime |-> Null, doShow |-> TRUE, statsCache |-> Null, calcs |-> 0]

\* set seismogram(value) as it would be without line 686: the cache is kept.
Sdd_set_seismogram_KeepsCache(d, value) == [d EXCEPT !.seismogram = value, !.calcs = 0]

\* set seismogram(value)
Sdd_set_seismogram(d, value) ==
    [d EXCEPT !.seismogram = value, !.statsCache = Null, !.calcs = 0]

\* static fromSeismogram(seismogram)
fromSeismogram(w, j) ==
    Sdd_set_seismogram(
        SeismogramDisplayData(Window(w.seis[j].startTime, w.seis[j].endTime)), j)

\* calcStats() but for the assignment of line 697: val is the new
\* SeismogramDisplayStats, all 0 when there is no Seismogram.
calcStats(w, d) ==
    IF d.seismogram = NoId
    THEN Result(w, FALSE, [min |-> 0, max |-> 0, mean |-> Ratio(0, 1), trendSlope |-> 0])
    ELSE Let(Seis_findMinMax(w, d.seismogram, Null), LAMBDA m :
           IF m.threw THEN Result(m.w, TRUE, Null)
           ELSE Let(Seis_mean(m.w, d.seismogram), LAMBDA a :
                  IF a.threw THEN Result(a.w, TRUE, Null)
                  ELSE Result(a.w, FALSE,
                              [min |-> m.val.data[1], max |-> m.val.data[2],
                               mean |-> a.val, trendSlope |-> 0])))

\* get min, get max, get mean (name says which): w is the heap after the
\* read, d the display data after it, val the number returned.
Sdd_stat(w, d, name) ==
    IF d.statsCache # Null
    THEN [w |-> w, d |-> d, threw |-> FALSE, val |-> d.statsCache[name]]
    ELSE Let(calcStats(w, d), LAMBDA c :
           IF c.threw THEN [w |-> c.w, d |-> d, threw |-> TRUE, val |-> Null]
           ELSE [w |-> c.w,
                 d |-> [d EXCEPT !.statsCache = c.val, !.calcs = @ + 1],
                 threw |-> FALSE, val |-> c.val[name]])

\* cloneWithNewSeismogram(seis): the own properties of this are _seismogram,
\* label, ..., _statsCache, none of them is named 'seismogram', so each is
\* copied into out (a moment by moment.utc, an Array by slice()) and the
\* argument seis (newSeis here) is not used.  The new object has called calcStats() never.
cloneWithNewSeismogram(d, newSeis) ==
    [SeismogramDisplayData(d.timeWindow) EXCEPT
        !.seismogram = d.seismogram,
        !.label = d.label,
        !.markerList = d.markerList,
        !.channel = d.channel,
        !.instrumentSensitivity = d.instrumentSensitivity,
        !.quakeList = d.quakeList,
        !.timeWindow = d.timeWindow,
        !.alignmentTime = d.alignmentTime,
        !.doShow = d.doShow,
        !.statsCache = d.statsCache]

\* clone(): cloneWithNewSeismogram of a clone of the Seismogram, or of null.
Sdd_clone(w, d) ==
    IF d.seismogram = NoId THEN Result(w, FALSE, cloneWithNewSeismogram(d, NoId))
    ELSE Let(Seis_clone(w, d.seismogram), LAMBDA c :
           IF c.threw THEN Result(c.w, TRUE, Null)
           ELSE Result(c.w, FALSE, cloneWithNewSeismogram(d, c.val)))

(***************************************************************************)
(* mseed3.calculateCRC32C, as the specification of the library states it:  *)
(* the table-driven reflected CRC of the Castagnoli polynomial.  A 32-bit  *)
(* word is kept as its two unsigned 16-bit halves.                         *)
(***************************************************************************)
Word(hi, lo) == [hi |-> hi, lo |-> lo]

\* a ^ b on unsigned integers
RECURSIVE Xor(_, _)
Xor(a, b) ==
    IF a = 0 THEN b
    ELSE IF b = 0 THEN a
    ELSE ((a + b) % 2) + 2 * Xor(a \div 2, b \div 2)

Xor32(x, y) == Word(Xor(x.hi, y.hi), Xor(x.lo, y.lo))

\* x >>> 1 and x >>> 8
Shr1(x) == Word(x.hi \div 2, (x.hi % 2) * 32768 + x.lo \div 2)
Shr8(x) == Word(x.hi \div 256, (x.hi % 256) * 256 + x.lo \div 256)

\* The n low bits of v in reverse order.
RECURSIVE ReverseBits(_, _)
ReverseBits(v, n) ==
    IF n = 0 THEN 0
    ELSE (v % 2) * 2 ^ (n - 1) + ReverseBits(v \div 2, n - 1)

\* The Castagnoli polynomial 0x1EDC6F41 and its reflection 0x82F63B78.
Castagnoli == Word(7900, 28481)
Reflected(x) == Word(ReverseBits(x.lo, 16), ReverseBits(x.hi, 16))

\* 0xFFFFFFFF: the initial value and the final XOR.
AllOnes == Word(65535, 65535)

\* One bit of the reflected division by the IEEE 802.3 polynomial
\* 0x04C11DB7 (CRC-32) instead of the Castagnoli polynomial.
ShiftOut_Ieee(x) ==
    IF x.lo % 2 = 1 THEN Xor32(Shr1(x), Reflected(Word(1217, 7607))) ELSE Shr1(x)

\* One bit of the reflected division: the low bit is shifted out and, when
\* it was set, the reflected polynomial is subtracted.
ShiftOut(x) ==
    IF x.lo % 2 = 1 THEN Xor32(Shr1(x), Reflected(Castagnoli)) ELSE Shr1(x)

RECURSIVE ShiftOutBits(_, _)
ShiftOutBits(x, n) ==
    IF n = 0 THEN x ELSE Let(ShiftOut(x), LAMBDA y : ShiftOutBits(y, n - 1))

\* The entry of the reflected table for the byte n.
crcTable(n) == ShiftOutBits(Word(0, n), 8)

\* crc = table[(crc ^ byte) & 0xFF] ^ (crc >>> 8), over the bytes from k on.
RECURSIVE crc_loop(_, _, _)
crc_loop(data, k, crcVal) ==
    IF k > Len(data) THEN crcVal
    ELSE Let(Xor32(crcTable(Xor(crcVal.lo % 256, data[k])), Shr8(crcVal)),
             LAMBDA c : crc_loop(data, k + 1, c))

\* calculateCRC32C(buf): the unsigned 32-bit check value of the bytes.
calculateCRC32C(data) == Xor32(crc_loop(data, 1, AllOnes), AllOnes)

(***************************************************************************)
(* The test "crc-32c of a string", src/unnamed/part_001.                   *)
(***************************************************************************)
\* The characters '0' to '9', whose UTF-16 code units are 48 to 57.
Digits == <<"0", "1", "2", "3", "4", "5", "6", "7", "8", "9">>

\* s.charCodeAt(i) taken as the value of the digit, not its code unit.
charCodeAt_DigitValue(s, i) == (CHOOSE n \in 1..10 : Digits[n] = s[i + 1]) - 1

\* s.charCodeAt(i), i from 0, for a string of digits
charCodeAt(s, i) == 47 + (CHOOSE n \in 1..10 : Digits[n] = s[i + 1])

\* let s = "123456789"
TestString == <<"1", "2", "3", "4", "5", "6", "7", "8", "9">>

\* buf[i] = s.charCodeAt(i) for every i
TestBuf == [k \in 1..Len(TestString) |-> charCodeAt(TestString, k - 1)]

\* 0xe3069283, the value the test expects
TestCrc == Word(58118, 37507)

(***************************************************************************)
(* class DataLinkConnection, src/unnamed/part_003.  One connection object  *)
(* (the `that` of its callbacks), the WebSocket objects it has created and *)
(* the promises awaitDLBinary has returned.  A WebSocket is known by its   *)
(* identity k, a promise by its identity p; the two functions              *)
(* responseResolve and responseReject of a promise are known by p.         *)
(*                                                                         *)
(* The callbacks a promise runs when it settles (then, catch) run after    *)
(* the call or the event that settled it and before the next event, so     *)
(* they are part of the step that settles it.                              *)
(***************************************************************************)
QUERY_MODE == "QUERY"
STREAM_MODE == "STREAM"
\* null as the value of mode
NoMode == "null"
STREAM == "STREAM"
ENDSTREAM == "ENDSTREAM"

\* The value of a field the constructor never assigns.
Unassigned == [undefined |-> TRUE]

\* if (x), for x a WebSocket, null or undefined
Truthy(x) == x # Null /\ x # Unassigned

\* constructor(url, packetHandler, errorHandler): webSocket is not assigned.
\* errors and packets count the calls of errorHandler and packetHandler.
DataLinkConnection ==
    [mode |-> QUERY_MODE, closeHandler |-> Null, serverId |-> Null,
     responseResolve |-> NoId, responseReject |-> NoId,
     webSocket |-> Unassigned, errors |-> 0, packets |-> 0]

\* The connection, the WebSockets and the promises.
DataLink(c, s, p) == [conn |-> c, sockets |-> s, promises |-> p]

DlResult(d, threw, val) == [d |-> d, threw |-> threw, val |-> val]

\* A promise that settles and its then / catch callbacks of awaitDLBinary
\* (lines 236-244), which set both response slots to null; the then of
\* sendId and of connect (152-155, 100-103) on a reply to the ID command.  A
\* promise that has settled stays as it is.
settle(d, p, state, value) ==
    IF d.promises[p].state # "pending" THEN d
    ELSE [d EXCEPT !.promises[p].state = state,
                   !.promises[p].value = value,
                   !.conn.responseResolve = NoId,
                   !.conn.responseReject = NoId,
                   !.conn.serverId =
                       IF /\ state = "resolved"
                          /\ d.promises[p].command = "ID"
                          /\ value.kind = "ID"
                       THEN value ELSE @]

\* webSocket.send(rawPacket) on the WebSocket k: an exception while it is
\* connecting, queued while open, dropped once closing or closed.  p is the
\* promise that awaits the response, NoId if none does.
send(d, k, command, p) ==
    IF d.sockets[k].readyState = "CONNECTING" THEN DlResult(d, TRUE, Null)
    ELSE IF d.sockets[k].readyState = "OPEN"
    THEN DlResult([d EXCEPT !.sockets[k].sent =
                              Append(@, [command |-> command, promise |-> p])],
                  FALSE, Null)
    ELSE DlResult(d, FALSE, Null)

\* sendDLBinary(header, data), sendDLCommand(command, dataString)
sendDLBinary(d, header, p) ==
    IF Truthy(d.conn.webSocket)
    THEN send(d, d.conn.webSocket.object, header, p)
    ELSE DlResult(d, TRUE, Null)

\* awaitDLBinary(header, data), awaitDLCommand(command, dataString): the new
\* promise takes both response slots, the command is sent, and an exception
\* of sendDLBinary rejects the promise.  val is the promise returned.
awaitDLBinary(d, header) ==
    Let([d EXCEPT !.promises = Append(@, [command |-> header, state |-> "pending",
                                          value |-> Null, received |-> FALSE]),
                  !.conn.responseResolve = Len(d.promises) + 1,
                  !.conn.responseReject = Len(d.promises) + 1],
        LAMBDA e :
          Let(sendDLBinary(e, header, Len(e.promises)), LAMBDA r :
            DlResult(IF r.threw
                     THEN settle(r.d, Len(e.promises), "rejected", [kind |-> "thrown", for |-> NoId])
                     ELSE r.d,
                     FALSE, Ref(Len(e.promises)))))

\* sendId()
sendId(d) == awaitDLBinary(d, "ID")

\* connect() up to the return of the promise: a new WebSocket, connecting,
\* is stored in webSocket.  closeCalled records that close() was called on
\* the WebSocket.
connect(d) ==
    DlResult([d EXCEPT !.sockets = Append(@, [readyState |-> "CONNECTING",
                                              sent |-> <<>>, answered |-> 0,
                                              closeCalled |-> FALSE]),
                       !.conn.webSocket = Ref(Len(d.sockets) + 1)],
             FALSE, Null)

\* isConnected()
isConnected(d) == DlResult(d, FALSE, Boolean(d.conn.webSocket # Null))

\* stream()
stream(d) ==
    IF d.conn.mode = STREAM_MODE THEN DlResult(d, FALSE, Null)
    ELSE sendDLBinary([d EXCEPT !.conn.mode = STREAM_MODE], STREAM, NoId)

\* endStream()
endStream(d) ==
    IF d.conn.webSocket = Null \/ d.conn.mode = NoMode \/ d.conn.mode = QUERY_MODE
    THEN DlResult(d, FALSE, Null)
    ELSE sendDLBinary([d EXCEPT !.conn.mode = QUERY_MODE], ENDSTREAM, NoId)

\* webSocket.close() on the WebSocket k
WebSocket_close(d, k) ==
    IF d.sockets[k].readyState \in {"CLOSING", "CLOSED"}
    THEN [d EXCEPT !.sockets[k].closeCalled = TRUE]
    ELSE [d EXCEPT !.sockets[k].readyState = "CLOSING",
                   !.sockets[k].closeCalled = TRUE]

\* close()
close(d) ==
    IF ~Truthy(d.conn.webSocket) THEN DlResult(d, FALSE, Null)
    ELSE Let(endStream(d), LAMBDA e :
           IF e.threw THEN e
           ELSE DlResult(
                  [(IF Truthy(e.d.conn.webSocket)
                    THEN WebSocket_close(e.d, e.d.conn.webSocket.object)
                    ELSE e.d)
                   EXCEPT !.conn.webSocket = Null, !.conn.mode = NoMode],
                  FALSE, Null))

\* handleError(error)
handleError(d, error) ==
    [(IF d.conn.responseReject # NoId
      THEN settle(d, d.conn.responseReject, "rejected", error)
      ELSE d)
     EXCEPT !.conn.errors = @ + 1]

\* handle(wsEvent) for a message of the kind message.kind: "PACKET", "ERROR",
\* "OK", another header that starts with DL ("ID") or none ("notDL").
\* handlerThrows says whether packetHandler throws.
handle(d, message, handlerThrows) ==
    IF message.kind = "notDL" THEN DlResult(d, TRUE, Null)
    ELSE IF message.kind = "PACKET"
    THEN DlResult([d EXCEPT !.conn.packets = @ + 1,
                            !.conn.errors = IF handlerThrows THEN @ + 1 ELSE @],
                  FALSE, Null)
    ELSE IF message.kind = "ERROR"
    THEN DlResult(handleError(d, message), FALSE, Null)
    ELSE IF d.conn.responseResolve # NoId
    THEN DlResult(settle(d, d.conn.responseResolve, "resolved", message), FALSE, Null)
    ELSE DlResult(d, FALSE, Null)

\* webSocket.onopen of connect(): resolve(that), and the then of line 98
\* calls sendId().
onopen(d, k) ==
    sendId([d EXCEPT !.sockets[k].readyState = "OPEN"])

\* webSocket.onerror of connect(), the connection of k having failed.
onerror(d, k) ==
    DlResult(handleError([d EXCEPT !.sockets[k].readyState = "CLOSING"],
                         [kind |-> "event", for |-> NoId]),
             FALSE, Null)

\* webSocket.onclose of connect(), for the WebSocket k
onclose(d, k) ==
    DlResult([d EXCEPT !.sockets[k].readyState = "CLOSED",
                       !.conn.webSocket = Null,
                       !.conn.mode = QUERY_MODE],
             FALSE, Null)

\* The commands sent on the WebSocket that await a response, in order.
Awaited(socket) == SelectSeq(socket.sent, LAMBDA c : c.promise # NoId)

\* The messages the server can send next on a WebSocket: the response to
\* the oldest awaited command not yet answered, a packet once STREAM has been sent.
Responses(socket) ==
    (IF socket.answered < Len(Awaited(socket))
     THEN Let(Awaited(socket)[socket.answered + 1], LAMBDA c :
            {[kind |-> IF c.command = "ID" THEN "ID" ELSE "OK", for |-> c.promise],
             [kind |-> "ERROR", for |-> c.promise]})
     ELSE {})
    \cup (IF \E n \in DOMAIN socket.sent : socket.sent[n].command = STREAM
          THEN {[kind |-> "PACKET", for |-> NoId]}
          ELSE {})

\* The server's message is taken off the WebSocket k.
Delivered(d, k, message) ==
    IF message.for = NoId THEN d
    ELSE [d EXCEPT !.sockets[k].answered = @ + 1,
                   !.promises[message.for].received = TRUE]

(***************************************************************************)
(* Inputs.                                                                 *)
(***************************************************************************)
I32(data) == [kind |-> Int32Kind, data |-> data]
F64(data) == [kind |-> Float64Kind, data |-> data]
Encoded(handles) == [kind |-> "EncodedArray", data |-> handles]
Numbers(data) == [kind |-> "NumberArray", data |-> data]

\* Payload handles: two that decode, one whose decode() throws.
HandleA == EncodedDataSegment("STEIM2", 2, <<4, 7>>, TRUE)
HandleB == EncodedDataSegment("STEIM2", 1, <<6>>, TRUE)
HandleBad == EncodedDataSegment("UNKNOWN", 1, <<>>, FALSE)

SampleRates == {1, 2}

\* Arguments of the SeismogramSegment constructor.
SegmentArrays ==
    {I32(<<>>), I32(<<4, 7, 5>>), Numbers(<<3, 8>>), Encoded(<<>>),
     Encoded(<<HandleA>>), Encoded(<<HandleA, HandleB>>),
     Encoded(<<HandleB, HandleBad>>),
     Encoded(<<EncodedDataSegment("STEIM2", 2, <<4>>, TRUE)>>),
     Encoded(<<HandleA, EncodedDataSegment("STEIM2", 1, <<6, 9>>, TRUE)>>)}

\* Samples of the segments a Seismogram starts from.
SeismogramArrays == {I32(<<4>>), I32(<<4, 7>>), Encoded(<<HandleA>>)}

\* Samples a second segment can hold besides: a Float64Array behind a first
\* segment of another kind.
FloatArrays == {F64(<<Half(2)>>)}

\* Sample rates of a single segment: 6 Hz has a period that is no whole
\* number of milliseconds.
SegmentRates == SampleRates \cup {6}

\* Start times of a Seismogram's second segment, in half sample periods after
\* the start of the first: behind a first segment of two samples these are an
\* overlap and gaps of 0, 1, 1.5 and 2 periods.
StartHalfPeriods == {0, 2, 4, 5, 6}

\* Values assigned to y, startTime and sampleRate of a segment.
AssignedArrays == {TypedArray(Int32Kind, <<>>), TypedArray(Int32Kind, <<9, 1>>)}
AssignedTimes == {1000}

\* Time windows of cut and trim, durations of break (ms), code values.
Windows == {Window(0, 500), Window(1000, 3000), Window(5000, 6000)}
\* Windows of cut on a single segment: one more, starting 333 ms in.
SegmentWindows == Windows \cup {Window(333, 3000)}
Durations == {1000, 2500}
Codes == {"CO"}
CodeFields == {"networkCode", "stationCode", "locationCode", "channelCode"}
NewData == {TypedArray(Float64Kind, <<2, 2>>), TypedArray(Float64Kind, <<Huge>>)}
\* The accumulator given to findMinMax: none, or [3, 5].
Accumulators == {Null, Numbers(<<3, 5>>)}
SampleIndexes == {0}
\* The value written into a sample array.
WrittenSamples == {9}

(***************************************************************************)
(* State.                                                                  *)
(***************************************************************************)
Cur == World(segs, seis, decodeCalls, decodeThrows)

\* The heap when a call has ended: every array object new in the call has its
\* number, one no other array has.
Held(sg) ==
    [i \in DOMAIN sg |->
        IF sg[i].y # Null /\ sg[i].yBuffer = NoId
        THEN [sg[i] EXCEPT !.yBuffer = MaxOf({sg[n].yBuffer : n \in DOMAIN sg}) + i]
        ELSE sg[i]]

\* A call ends in world w, having returned or thrown as r says.
Ends(w, r) ==
    /\ steps' = steps + 1
    /\ segs' = Held(w.segs)
    /\ seis' = w.seis
    /\ decodeCalls' = w.calls
    /\ decodeThrows' = w.throws
    /\ ret' = r
    /\ UNCHANGED <<buf, dl, brk>>

\* A call on a segment or a Seismogram ends.
Call(w, r) == Ends(w, r) /\ UNCHANGED sdds

Ret(op, target, arg, threw, val) ==
    [op |-> op, target |-> target, arg |-> arg, threw |-> threw, val |-> val]

EmptyWorld == World(<<>>, <<>>, <<>>, <<>>)

Starts(w, r) ==
    /\ segs = Held(w.segs)
    /\ seis = w.seis
    /\ decodeCalls = w.calls
    /\ decodeThrows = w.throws
    /\ wasDecoded = {}
    /\ steps = 0
    /\ ret = r

\* Segments and Seismograms, and no display data.
\* No DataLinkConnection has been constructed.
NoDataLink == [conn |-> Null, sockets |-> <<>>, promises |-> <<>>]

\* No break() call is being followed.
NoBreak == [pc |-> "idle"]

Start(w, r) ==
    Starts(w, r) /\ sdds = <<>> /\ buf = <<>> /\ dl = NoDataLink /\ brk = NoBreak

\* One SeismogramSegment, just constructed.
InitSeg ==
    \E a \in SegmentArrays, r \in SegmentRates :
        Start(AllocSeg(EmptyWorld, SeismogramSegment(a, r, 0)),
              Ret("new", 1, Null, FALSE, Null))

\* The segments a Seismogram is constructed from: one at time 0, or that one
\* and a second of the same sample rate, h half periods later.
OneSegment(a, r) == AllocSeg(EmptyWorld, SeismogramSegment(a, r, 0))
TwoSegments(a, r, b, h) ==
    AllocSeg(OneSegment(a, r), SeismogramSegment(b, r, (h * 500) \div r))

\* new Seismogram(segmentArray) over all the segments of w and then, when
\* again holds, new Seismogram(seg) for the last of them once more: the
\* constructor keeps the objects it is given, so two Seismograms can hold one
\* segment.
Constructed(w, again) ==
    IF again
    THEN Seismogram(Seismogram(w, [k \in 1..Len(w.segs) |-> k]).w, <<Len(w.segs)>>)
    ELSE Seismogram(w, [k \in 1..Len(w.segs) |-> k])

\* The heaps of segments the Seismograms are constructed over.
SegmentHeaps ==
    {OneSegment(a, r) : a \in SeismogramArrays, r \in SampleRates}
    \cup {TwoSegments(a, r, b, h) : a \in SeismogramArrays, r \in SampleRates,
                                    b \in SeismogramArrays \cup FloatArrays,
                                    h \in StartHalfPeriods}

\* The Seismograms just constructed.
InitSeis ==
    \E w \in SegmentHeaps :
        \E again \in BOOLEAN : \E g \in {Constructed(w, again)} :
            Start(g.w, Ret("new", g.val, Null, g.threw, Null))

SegIds == DOMAIN segs
SeisIds == DOMAIN seis

(***************************************************************************)
(* Calls on a SeismogramSegment.                                           *)
(***************************************************************************)
\* A read of y that completed on a segment whose isEncoded() held.
ReadWhileEncoded(i, threw) ==
    wasDecoded' = IF isEncoded(segs[i]) /\ ~threw THEN wasDecoded \cup {i}
                  ELSE wasDecoded

Seg_ReadY ==
    /\ steps < MaxSegOps
    /\ \E i \in SegIds : \E r \in {W_y(Cur, i)} :
        /\ Call(r.w, Ret("y", i, Null, r.threw, r.val))
        /\ ReadWhileEncoded(i, r.threw)

Seg_SetY ==
    /\ steps < MaxSegOps
    /\ \E i \in SegIds, value \in AssignedArrays :
        /\ Call([Cur EXCEPT !.segs[i] = Seg_set_y(@, value)],
                Ret("set y", i, value, FALSE, Null))
        /\ UNCHANGED wasDecoded

Seg_SetStartTime ==
    /\ steps < MaxSegOps
    /\ \E i \in SegIds, value \in AssignedTimes :
        /\ Call([Cur EXCEPT !.segs[i] = Seg_set_startTime(@, value)],
                Ret("set startTime", i, Moment(value), FALSE, Null))
        /\ UNCHANGED wasDecoded

Seg_SetSampleRate ==
    /\ steps < MaxSegOps
    /\ \E i \in SegIds, value \in SampleRates :
        /\ Call([Cur EXCEPT !.segs[i] = Seg_set_sampleRate(@, value)],
                Ret("set sampleRate", i, Number(value), FALSE, Null))
        /\ UNCHANGED wasDecoded

Seg_ReadEndTime ==
    /\ steps < MaxSegOps
    /\ \E i \in SegIds : \E r \in {W_endTime(Cur, i)} :
        /\ Call(r.w, Ret("endTime", i, Null, FALSE, Moment(r.val)))
        /\ UNCHANGED wasDecoded

Seg_ReadNumPoints ==
    /\ steps < MaxSegOps
    /\ \E i \in SegIds :
        /\ Call(Cur, Ret("numPoints", i, Null, FALSE,
                    Number(Seg_numPoints(segs[i]))))
        /\ UNCHANGED wasDecoded

Seg_IsEncoded ==
    /\ steps < MaxSegOps
    /\ \E i \in SegIds :
        /\ Call(Cur, Ret("isEncoded", i, Null, FALSE, Boolean(isEncoded(segs[i]))))
        /\ UNCHANGED wasDecoded

Seg_GetEncoded ==
    /\ steps < MaxSegOps
    /\ \E i \in SegIds : \E r \in {getEncoded(segs[i])} :
        /\ Call(Cur, Ret("getEncoded", i, Null, r.threw, r.val))
        /\ UNCHANGED wasDecoded

Seg_YAtIndex ==
    /\ steps < MaxSegOps
    /\ \E i \in SegIds, n \in SampleIndexes : \E r \in {yAtIndex(segs[i], n)} :
        /\ Call(W_after(Cur, i, r), Ret("yAtIndex", i, Number(n), r.threw, r.val))
        /\ ReadWhileEncoded(i, r.threw)

Seg_FindMinMax ==
    /\ steps < MaxSegOps
    /\ \E i \in SegIds : \E r \in {Seg_findMinMax(segs[i], Null)} :
        /\ Call(W_after(Cur, i, r), Ret("findMinMax", i, Null, r.threw, r.val))
        /\ ReadWhileEncoded(i, r.threw)

Seg_Clone ==
    /\ steps < MaxSegOps
    /\ \E i \in SegIds : \E r \in {Seg_clone(segs[i])} :
        /\ Call(IF r.threw THEN Cur ELSE AllocSeg(Cur, r.val),
                Ret("clone", i, Null, r.threw,
                    Ref(IF r.threw THEN NoId ELSE Len(segs) + 1)))
        /\ UNCHANGED wasDecoded

Seg_CloneWithNewData ==
    /\ steps < MaxSegOps
    /\ \E i \in SegIds, clonedData \in NewData :
        /\ Call(AllocSeg(Cur, cloneWithNewData(segs[i], clonedData, segs[i].startTime)),
                Ret("cloneWithNewData", i, clonedData, FALSE, Ref(Len(segs) + 1)))
        /\ UNCHANGED wasDecoded

Seg_Cut ==
    /\ steps < MaxSegOps
    /\ \E i \in SegIds, timeWindow \in SegmentWindows :
        \E r \in {W_cut(Cur, i, timeWindow)} :
        /\ Call(r.w, Ret("cut", i, timeWindow, r.threw, Ref(r.val)))
        /\ UNCHANGED wasDecoded

NextSeg ==
    \/ Seg_ReadY
    \/ Seg_SetY
    \/ Seg_SetStartTime
    \/ Seg_SetSampleRate
    \/ Seg_ReadEndTime
    \/ Seg_ReadNumPoints
    \/ Seg_IsEncoded
    \/ Seg_GetEncoded
    \/ Seg_YAtIndex
    \/ Seg_FindMinMax
    \/ Seg_Clone
    \/ Seg_CloneWithNewData
    \/ Seg_Cut

SpecSeg == InitSeg /\ [][NextSeg]_vars

(***************************************************************************)
(* Calls on a Seismogram.                                                  *)
(***************************************************************************)
\* new Seismogram(segmentArray): the empty Array, or one segment of the heap.
Seis_New ==
    /\ steps < MaxOps
    /\ \E segmentArray \in {<<>>} \cup {<<i>> : i \in SegIds} :
        \E r \in {Seismogram(Cur, segmentArray)} :
            /\ Call(r.w, Ret("new", r.val, [segmentArray |-> segmentArray],
                             r.threw, Null))
            /\ UNCHANGED wasDecoded

Seis_AppendSegment ==
    /\ steps < MaxOps
    /\ \E j \in SeisIds, i \in SegIds : \E r \in {append_segment(Cur, j, i)} :
        /\ Call(r.w, Ret("append", j, [segment |-> i], r.threw, Null))
        /\ UNCHANGED wasDecoded

Seis_Append ==
    /\ steps < MaxOps
    /\ \E j \in SeisIds, o \in SeisIds : \E r \in {append_seismogram(Cur, j, o)} :
        /\ Call(r.w, Ret("append", j, [seismogram |-> o], r.threw, Null))
        /\ UNCHANGED wasDecoded

Seis_Cut ==
    /\ steps < MaxOps
    /\ \E j \in SeisIds, timeWindow \in Windows : \E r \in {Seis_cut(Cur, j, timeWindow)} :
        /\ Call(r.w, Ret("cut", j, timeWindow, r.threw, Ref(r.val)))
        /\ UNCHANGED wasDecoded

Seis_Trim ==
    /\ steps < MaxOps
    /\ \E j \in SeisIds, timeWindow \in Windows : \E r \in {Seis_trim(Cur, j, timeWindow)} :
        /\ Call(r.w, Ret("trim", j, timeWindow, r.threw, Ref(r.val)))
        /\ UNCHANGED wasDecoded

Seis_Break ==
    /\ steps < MaxOps
    /\ \E j \in SeisIds, duration \in Durations : \E r \in {break(Cur, j, duration)} :
        /\ Call(r.w, Ret("break", j, Number(duration), r.threw, Null))
        /\ UNCHANGED wasDecoded

Seis_IsContiguous ==
    /\ steps < MaxOps
    /\ \E j \in SeisIds : \E r \in {isContiguous(Cur, j)} :
        /\ Call(r.w, Ret("isContiguous", j, Null, FALSE, Boolean(r.val)))
        /\ UNCHANGED wasDecoded

Seis_Merge ==
    /\ steps < MaxOps
    /\ \E j \in SeisIds : \E r \in {merge(Cur, j)} :
        /\ Call(r.w, Ret("merge", j, Null, r.threw, r.val))
        /\ UNCHANGED wasDecoded

Seis_ReadY ==
    /\ steps < MaxOps
    /\ \E j \in SeisIds : \E r \in {Seis_y(Cur, j)} :
        /\ Call(r.w, Ret("y", j, Null, r.threw, r.val))
        /\ UNCHANGED wasDecoded

Seis_FindMinMax ==
    /\ steps < MaxOps
    /\ \E j \in SeisIds, minMaxAccumulator \in Accumulators :
        \E r \in {Seis_findMinMax(Cur, j, minMaxAccumulator)} :
            /\ Call(r.w, Ret("findMinMax", j, minMaxAccumulator, r.threw, r.val))
            /\ UNCHANGED wasDecoded

Seis_Mean ==
    /\ steps < MaxOps
    /\ \E j \in SeisIds : \E r \in {Seis_mean(Cur, j)} :
        /\ Call(r.w, Ret("mean", j, Null, r.threw, r.val))
        /\ UNCHANGED wasDecoded

Seis_FftForward ==
    /\ steps < MaxOps
    /\ \E j \in SeisIds : \E r \in {fftForward(Cur, j)} :
        /\ Call(r.w, Ret("fftForward", j, Null, r.threw, r.val))
        /\ UNCHANGED wasDecoded

Seis_Clone ==
    /\ steps < MaxOps
    /\ \E j \in SeisIds : \E r \in {Seis_clone(Cur, j)} :
        /\ Call(r.w, Ret("clone", j, Null, r.threw, Ref(r.val)))
        /\ UNCHANGED wasDecoded

Seis_CloneWithNewData ==
    /\ steps < MaxOps
    /\ \E j \in SeisIds, newY \in NewData : \E r \in {Seis_cloneWithNewData(Cur, j, newY)} :
        /\ Call(r.w, Ret("cloneWithNewData", j, newY, r.threw, Ref(r.val)))
        /\ UNCHANGED wasDecoded

Seis_SetCode ==
    /\ steps < MaxOps
    /\ \E j \in SeisIds, field \in CodeFields, value \in Codes :
        /\ Call(Seis_set_code(Cur, j, field, value),
                Ret("set code", j, [field |-> field, value |-> value], FALSE, Null))
        /\ UNCHANGED wasDecoded

\* seismogram.segments[k].y[index] = value
Seis_WriteSample ==
    /\ steps < MaxOps
    /\ \E j \in SeisIds, index \in SampleIndexes, value \in WrittenSamples :
        \E k \in DOMAIN seis[j].segmentArray :
            \E r \in {W_writeSample(Cur, seis[j].segmentArray[k], index, value)} :
                /\ Call(r.w, Ret("write sample", j,
                                 [segment |-> k, index |-> index, value |-> value],
                                 r.threw, Null))
                /\ UNCHANGED wasDecoded

\* seismogram.segments[k].startTime = value, and the same of sampleRate.
Seis_AssignSegment ==
    /\ steps < MaxOps
    /\ \E j \in SeisIds : \E k \in DOMAIN seis[j].segmentArray :
        \/ \E value \in AssignedTimes :
              /\ Call([Cur EXCEPT !.segs[seis[j].segmentArray[k]] =
                                      Seg_set_startTime(@, value)],
                      Ret("assign", j, [segment |-> k, startTime |-> value],
                          FALSE, Null))
              /\ UNCHANGED wasDecoded
        \/ \E value \in SegmentRates \ SampleRates :
              /\ Call([Cur EXCEPT !.segs[seis[j].segmentArray[k]] =
                                      Seg_set_sampleRate(@, value)],
                      Ret("assign", j, [segment |-> k, sampleRate |-> value],
                          FALSE, Null))
              /\ UNCHANGED wasDecoded

Next ==
    \/ Seis_New
    \/ Seis_AppendSegment
    \/ Seis_Append
    \/ Seis_Cut
    \/ Seis_Trim
    \/ Seis_Break
    \/ Seis_IsContiguous
    \/ Seis_Merge
    \/ Seis_ReadY
    \/ Seis_FindMinMax
    \/ Seis_Mean
    \/ Seis_FftForward
    \/ Seis_Clone
    \/ Seis_CloneWithNewData
    \/ Seis_SetCode
    \/ Seis_WriteSample
    \/ Seis_AssignSegment

Spec == InitSeis /\ [][Next]_vars

(***************************************************************************)
(* Calls on a SeismogramDisplayData.                                       *)
(***************************************************************************)
SddIds == DOMAIN sdds
StatNames == {"min", "max", "mean"}

\* The Seismograms just constructed and one display data: made of the first
\* Seismogram by fromSeismogram, or constructed over a time window.
InitSdd ==
    \E w \in SegmentHeaps : \E g \in {Constructed(w, TRUE)} :
        /\ Starts(g.w, Ret("new", 1, Null, FALSE, Null))
        /\ \/ sdds = <<fromSeismogram(g.w, 1)>>
           \/ sdds = <<SeismogramDisplayData(Window(0, 1000))>>
        /\ buf = <<>>
        /\ dl = NoDataLink
        /\ brk = NoBreak

Sdd_ReadStat ==
    /\ steps < MaxSddOps
    /\ \E n \in SddIds, name \in StatNames : \E r \in {Sdd_stat(Cur, sdds[n], name)} :
        /\ Ends(r.w, Ret(name, n, Null, r.threw,
                         IF r.threw THEN Null ELSE [number |-> r.val]))
        /\ sdds' = [sdds EXCEPT ![n] = r.d]
        /\ UNCHANGED wasDecoded

Sdd_SetSeismogram ==
    /\ steps < MaxSddOps
    /\ \E n \in SddIds, value \in SeisIds \cup {NoId} :
        /\ Ends(Cur, Ret("set seismogram", n, Ref(value), FALSE, Null))
        /\ sdds' = [sdds EXCEPT ![n] = Sdd_set_seismogram(@, value)]
        /\ UNCHANGED wasDecoded

Sdd_Clone ==
    /\ steps < MaxSddOps
    /\ \E n \in SddIds : \E r \in {Sdd_clone(Cur, sdds[n])} :
        /\ Ends(r.w, Ret("clone", n, Null, r.threw,
                         Ref(IF r.threw THEN NoId ELSE Len(sdds) + 1)))
        /\ sdds' = IF r.threw THEN sdds ELSE Append(sdds, r.val)
        /\ UNCHANGED wasDecoded

Sdd_CloneWithNewSeismogram ==
    /\ steps < MaxSddOps
    /\ \E n \in SddIds, seis_ \in SeisIds \cup {NoId} :
        /\ Ends(Cur, Ret("cloneWithNewSeismogram", n, Ref(seis_), FALSE,
                         Ref(Len(sdds) + 1)))
        /\ sdds' = Append(sdds, cloneWithNewSeismogram(sdds[n], seis_))
        /\ UNCHANGED wasDecoded

NextSdd ==
    \/ Sdd_ReadStat
    \/ Sdd_SetSeismogram
    \/ Sdd_Clone
    \/ Sdd_CloneWithNewSeismogram

SpecSdd == InitSdd /\ [][NextSdd]_vars

(***************************************************************************)
(* Calls of calculateCRC32C.                                               *)
(***************************************************************************)
\* The bytes of the buffers checked: the test's, and every buffer of up to
\* MaxBufLen bytes out of four byte values.
ByteValues == {0, 1, 128, 255}
Buffers ==
    {TestBuf} \cup UNION {[1..n -> ByteValues] : n \in 0..MaxBufLen}

\* A Uint8Array has been filled; no other object exists.
InitCrc ==
    /\ Starts(EmptyWorld, Ret("new Uint8Array", NoId, Null, FALSE, Null))
    /\ sdds = <<>>
    /\ buf \in Buffers
    /\ dl = NoDataLink
    /\ brk = NoBreak

\* let crc = mseed3.calculateCRC32C(buf)
Crc_Calculate ==
    /\ ret' = Ret("calculateCRC32C", NoId, Null, FALSE,
                  [word |-> calculateCRC32C(buf)])
    /\ UNCHANGED <<segs, seis, decodeCalls, decodeThrows, wasDecoded, steps,
                   sdds, buf, dl, brk>>

NextCrc == Crc_Calculate

SpecCrc == InitCrc /\ [][NextCrc]_vars

(***************************************************************************)
(* Calls on a DataLinkConnection and events of its WebSockets.             *)
(***************************************************************************)
SocketIds == DOMAIN dl.sockets
AwaitedCommands == {"INFO"}

\* A call or an event handler of the connection ends, the connection, its
\* WebSockets and its promises being as d says.
DlEnds(d, r) ==
    /\ steps' = steps + 1
    /\ dl' = d
    /\ ret' = r
    /\ UNCHANGED <<segs, seis, decodeCalls, decodeThrows, wasDecoded, sdds, buf,
                   brk>>

\* new DataLinkConnection(url, packetHandler, errorHandler)
InitDl ==
    /\ Starts(EmptyWorld, Ret("new", NoId, Null, FALSE, Null))
    /\ sdds = <<>>
    /\ buf = <<>>
    /\ dl = DataLink(DataLinkConnection, <<>>, <<>>)
    /\ brk = NoBreak

DL_Connect ==
    /\ steps < MaxDlOps
    /\ Len(dl.sockets) < MaxSockets
    /\ \E r \in {connect(dl)} :
        DlEnds(r.d, Ret("connect", NoId, Null, r.threw, r.val))

DL_IsConnected ==
    /\ steps < MaxDlOps
    /\ \E r \in {isConnected(dl)} :
        DlEnds(r.d, Ret("isConnected", NoId, Null, r.threw, r.val))

DL_Stream ==
    /\ steps < MaxDlOps
    /\ \E r \in {stream(dl)} :
        DlEnds(r.d, Ret("stream", NoId, Null, r.threw, r.val))

DL_EndStream ==
    /\ steps < MaxDlOps
    /\ \E r \in {endStream(dl)} :
        DlEnds(r.d, Ret("endStream", NoId, Null, r.threw, r.val))

DL_Close ==
    /\ steps < MaxDlOps
    /\ \E r \in {close(dl)} :
        DlEnds(r.d, Ret("close", NoId, Null, r.threw, r.val))

DL_AwaitDLCommand ==
    /\ steps < MaxDlOps
    /\ Len(dl.promises) < MaxPromises
    /\ \E command \in AwaitedCommands : \E r \in {awaitDLBinary(dl, command)} :
        DlEnds(r.d, Ret("awaitDLCommand", NoId, Null, r.threw, r.val))

\* The open event of a WebSocket that is connecting.
WS_Open ==
    /\ steps < MaxDlOps
    /\ Len(dl.promises) < MaxPromises
    /\ \E k \in SocketIds :
        /\ dl.sockets[k].readyState = "CONNECTING"
        /\ \E r \in {onopen(dl, k)} :
            DlEnds(r.d, Ret("onopen", k, Null, r.threw, r.val))

\* A message event of a WebSocket: onmessage calls handle.
WS_Message ==
    /\ steps < MaxDlOps
    /\ \E k \in SocketIds :
        /\ dl.sockets[k].readyState \in {"OPEN", "CLOSING"}
        /\ \E message \in Responses(dl.sockets[k]), handlerThrows \in BOOLEAN :
            /\ handlerThrows => message.kind = "PACKET"
            /\ \E r \in {handle(Delivered(dl, k, message), message, handlerThrows)} :
                DlEnds(r.d, Ret("onmessage", k, message, r.threw, r.val))

\* The error event of a WebSocket whose connection fails.
WS_Error ==
    /\ steps < MaxDlOps
    /\ \E k \in SocketIds :
        /\ dl.sockets[k].readyState \in {"CONNECTING", "OPEN"}
        /\ \E r \in {onerror(dl, k)} :
            DlEnds(r.d, Ret("onerror", k, Null, r.threw, r.val))

\* The close event of a WebSocket: closed by close(), by the server, or
\* after its connection has failed.
WS_Close ==
    /\ steps < MaxDlOps
    /\ \E k \in SocketIds :
        /\ dl.sockets[k].readyState \in {"OPEN", "CLOSING"}
        /\ \E r \in {onclose(dl, k)} :
            DlEnds(r.d, Ret("onclose", k, Null, r.threw, r.val))

NextDl ==
    \/ DL_Connect
    \/ DL_IsConnected
    \/ DL_Stream
    \/ DL_EndStream
    \/ DL_Close
    \/ DL_AwaitDLCommand
    \/ WS_Open
    \/ WS_Message
    \/ WS_Error
    \/ WS_Close

SpecDl == InitDl /\ [][NextDl]_vars

(***************************************************************************)
(* Seismogram.break step by step: the call enters the while loop of line   *)
(* 459, every pass of the loop is a step, and the call returns when the    *)
(* loop's test fails.  The model follows at most MaxBreakWindows passes.   *)
(***************************************************************************)
\* The durations break is called with: those of Durations and a zero-length one.
BreakDurations == Durations \cup {0}

\* The Seismograms just constructed; break() has not been called.
InitBreak ==
    \E w \in SegmentHeaps :
        \E again \in BOOLEAN : \E g \in {Constructed(w, again)} :
            Start(g.w, Ret("new", g.val, Null, g.threw, Null))

\* The heap is as w says while break() runs or when it has returned.
BreakSteps(w) ==
    /\ segs' = Held(w.segs)
    /\ seis' = w.seis
    /\ decodeCalls' = w.calls
    /\ decodeThrows' = w.throws
    /\ UNCHANGED <<wasDecoded, sdds, buf, dl>>

\* break(duration) is called: lines 456-458, breakStart a copy of startTime
\* and out empty.
Break_Call ==
    /\ brk.pc # "loop"
    /\ steps < MaxBreakCalls
    /\ \E j \in SeisIds, duration \in BreakDurations :
        /\ brk' = [pc |-> "loop", target |-> j, duration |-> duration,
                   breakStart |-> seis[j].startTime, out |-> <<>>, windows |-> 0]
        /\ steps' = steps + 1
        /\ ret' = Ret("break", j, Number(duration), FALSE, Null)
        /\ BreakSteps(Cur)

\* One pass of the loop, lines 460-463: every segment cut to the window, the
\* pieces added to out, breakStart moved on by duration.  A cut that throws
\* ends the call.
Break_Window ==
    /\ brk.pc = "loop"
    /\ brk.windows < MaxBreakWindows
    /\ brk.breakStart < seis[brk.target].endTime
    /\ \E c \in {cut_each(Cur, seis[brk.target].segmentArray,
                          StartEndDuration(brk.breakStart, brk.duration), 1, <<>>)} :
        /\ brk' = IF c.threw THEN [brk EXCEPT !.pc = "done"]
                  ELSE [brk EXCEPT !.breakStart = @ + brk.duration,
                                   !.out = @ \o c.val,
                                   !.windows = @ + 1]
        /\ ret' = [ret EXCEPT !.threw = c.threw]
        /\ BreakSteps(c.w)
        /\ UNCHANGED steps

\* The loop's test fails: lines 465-469, the pieces that are not null
\* replace the segment list and break returns.
Break_Return ==
    /\ brk.pc = "loop"
    /\ ~(brk.breakStart < seis[brk.target].endTime)
    /\ brk' = [brk EXCEPT !.pc = "done"]
    /\ BreakSteps([Cur EXCEPT !.seis[brk.target].segmentArray = NonNull(brk.out)])
    /\ UNCHANGED <<ret, steps>>

NextBreak ==
    \/ Break_Call
    \/ Break_Window
    \/ Break_Return

\* A call that has begun goes on: the loop takes its next pass, or returns.
SpecBreak ==
    /\ InitBreak
    /\ [][NextBreak]_vars
    /\ WF_vars(Break_Window)
    /\ WF_vars(Break_Return)

(***************************************************************************)
(* Properties.                                                             *)
(***************************************************************************)
\* The world after the step, in an action formula.
CurNext == World(segs', seis', decodeCalls', decodeThrows')

\* The end of a segment by its fields: the time of its last sample.
LastSampleTime(s) == timeOfSample(s, Seg_numPoints(s) - 1)

\* C1: on every segment exactly one of the decoded sample array _y and the
\* handle list _compressed is present (non-null), the other is null.
C1_ExactlyOnePresent ==
    \A i \in SegIds : (segs[i].y = Null) # (segs[i].compressed = Null)

\* C2: once a read of y has completed on a segment whose isEncoded() was true,
\* isEncoded() is false on it ever after and getEncoded() throws.
C2_DecodingIsOneWay ==
    \A i \in wasDecoded : ~isEncoded(segs[i]) /\ getEncoded(segs[i]).threw

\* C3 as stated: decode() of each handle is invoked at most once per segment
\* instance, whatever sequence of y, yAtIndex, findMinMax, cut, numPoints and
\* endTime is called.
C3_DecodeAtMostOnce ==
    \A i \in SegIds : \A k \in DOMAIN decodeCalls[i] : decodeCalls[i][k] <= 1

\* C3, amended: on a segment where no decode() has thrown, decode() of each
\* handle has been invoked at most once (each read of y that a throwing
\* decode() ended can repeat the decode() of the handles before it once), and
\* a read of numPoints or endTime invokes no decode().
C3_DecodeOnceUnlessThrown ==
    /\ [](\A i \in SegIds : \A k \in DOMAIN decodeCalls[i] :
            decodeCalls[i][k] <= decodeThrows[i] + 1)
    /\ [][ret'.op \in {"numPoints", "endTime"} =>
            /\ decodeCalls' = decodeCalls
            /\ decodeThrows' = decodeThrows]_vars

\* C3, its case: a segment whose handles a read of y decoded, none throwing,
\* has then been cut (which reads y again), and each handle was decoded once.
C3_Witness ==
    /\ ret.op = "cut"
    /\ ~ret.threw
    /\ ret.val # Ref(NoId)
    /\ ret.target \in wasDecoded
    /\ decodeThrows[ret.target] = 0
    /\ \A k \in DOMAIN decodeCalls[ret.target] : decodeCalls[ret.target][k] = 1

\* C4: what the endTime getter of a segment returns is, at every read, the
\* start time plus (numPoints - 1) sample periods.
C4_EndTimeIsLastSample ==
    \A i \in SegIds : Seg_endTime(segs[i]).val = LastSampleTime(segs[i])

\* C5: in every Seismogram all segments have the same network, station,
\* location and channel code, the same yUnit and the same sampleRate.
C5_SegmentsAlike ==
    \A j \in SeisIds : \A k \in DOMAIN seis[j].segmentArray :
        ~checkSimilar_throws(segs[seis[j].segmentArray[1]],
                             segs[seis[j].segmentArray[k]])

\* C6: an append that throws leaves the receiver's segment list, startTime
\* and endTime as they were.
C6_FailedAppendChangesNothing ==
    [][(ret'.op = "append" /\ ret'.threw) =>
          /\ seis'[ret'.target].segmentArray = seis[ret'.target].segmentArray
          /\ seis'[ret'.target].startTime = seis[ret'.target].startTime
          /\ seis'[ret'.target].endTime = seis[ret'.target].endTime]_vars

\* The segments of the operand of an append, as they were at the call.
Operand(r) ==
    IF "segment" \in DOMAIN r.arg THEN <<r.arg.segment>>
    ELSE seis[r.arg.seismogram].segmentArray

\* C7: after an append that returns, the receiver's numPoints is its
\* numPoints before plus the operand's, and its segment list is its list
\* before followed by the operand's segments in their order.
C7_AppendAddsInOrder ==
    [][(ret'.op = "append" /\ ~ret'.threw) =>
          /\ seis'[ret'.target].segmentArray =
                 seis[ret'.target].segmentArray \o Operand(ret')
          /\ Seis_numPoints(CurNext, ret'.target) =
                 Seis_numPoints(Cur, ret'.target)
                 + SumSeq([k \in DOMAIN Operand(ret') |->
                              Seg_numPoints(segs[Operand(ret')[k]])])]_vars

\* C7, its case: a Seismogram of two segments has been appended to another
\* Seismogram, which held one segment.
C7_Witness ==
    /\ ret.op = "append"
    /\ ~ret.threw
    /\ "seismogram" \in DOMAIN ret.arg
    /\ ret.arg.seismogram # ret.target
    /\ Len(seis[ret.arg.seismogram].segmentArray) = 2
    /\ Len(seis[ret.target].segmentArray) = 3

\* C8: the startTime of a Seismogram is the earliest start time of its
\* segments and its endTime the latest of their end times.
C8_BoundsAreMinMax ==
    \A j \in SeisIds : seis[j].segmentArray # <<>> =>
        /\ seis[j].startTime =
               MinOf({segs[i].startTime : i \in Range(seis[j].segmentArray)})
        /\ seis[j].endTime =
               MaxOf({Seg_endTime(segs[i]).val : i \in Range(seis[j].segmentArray)})

\* C9: a Seismogram never has zero segments.
C9_NeverEmpty == \A j \in SeisIds : Len(seis[j].segmentArray) >= 1

\* The test the claim gives for two adjacent segments: the earlier ends
\* before the later starts, and less than 1.5 sample periods before it.
Adjacent(prev, next) ==
    /\ LastSampleTime(prev) < next.startTime
    /\ AddMillis(LastSampleTime(prev), 1500, prev.sampleRate) > next.startTime

\* C10: isContiguous() returns true for a Seismogram of one segment, and for
\* one of several exactly when every adjacent pair passes the test.
C10_ContiguousByGaps ==
    ret.op = "isContiguous" =>
        ret.val = Boolean(\/ Len(seis[ret.target].segmentArray) = 1
                          \/ \A k \in 1..(Len(seis[ret.target].segmentArray) - 1) :
                                Adjacent(segs[seis[ret.target].segmentArray[k]],
                                         segs[seis[ret.target].segmentArray[k + 1]]))

\* A time within the closed window.
InWindow(t, w) == w.startTime <= t /\ t <= w.endTime

\* C11: a cut of a segment with a window whose start is not after its end
\* returns no sample outside the window: every sample of a non-null result
\* has its time, the result's start time plus index / sampleRate, within
\* [w.start, w.end].
C11_CutStaysInWindow ==
    (ret.op = "cut" /\ ~ret.threw /\ ret.val # Ref(NoId)
        /\ ret.arg.startTime <= ret.arg.endTime) =>
        \A k \in 0..(Seg_numPoints(segs[ret.val.object]) - 1) :
            InWindow(timeOfSample(segs[ret.val.object], k), ret.arg)

\* The samples of a segment, as a read of y returns them.
Samples(s) ==
    IF s.y # Null THEN s.y.data
    ELSE IF isEncoded(s) /\ ~Seg_y(s).threw THEN Seg_y(s).val.data
    ELSE <<>>

\* Seismogram g holds a sample of value v at time t.
HoldsSample(g, t, v) ==
    \E i \in Range(seis[g].segmentArray) : \E k \in DOMAIN Samples(segs[i]) :
        timeOfSample(segs[i], k - 1) = t /\ Samples(segs[i])[k] = v

\* C12: the result of a Seismogram's cut(w) holds every sample of every
\* segment whose time is within [w.start, w.end], the bounds included; it is
\* non-null whenever there is such a sample.
C12_CutKeepsWindowSamples ==
    (ret.op = "cut" /\ ~ret.threw) =>
        \A i \in Range(seis[ret.target].segmentArray) :
            \A k \in DOMAIN Samples(segs[i]) :
                InWindow(timeOfSample(segs[i], k - 1), ret.arg) =>
                    /\ ret.val # Ref(NoId)
                    /\ HoldsSample(ret.val.object, timeOfSample(segs[i], k - 1),
                                   Samples(segs[i])[k])

\* Two segments with the same start time, sample rate and sample values.
SameSegment(a, b) ==
    /\ a.startTime = b.startTime
    /\ a.sampleRate = b.sampleRate
    /\ Samples(a) = Samples(b)

\* C13: cut is idempotent: when s.cut(w) is non-null, cutting that result
\* with w again returns a non-null segment with the same start time, sample
\* rate and sample values.
C13_CutIsIdempotent ==
    [][(/\ ret.op = "cut" /\ ~ret.threw /\ ret.val # Ref(NoId)
        /\ ret'.op = "cut" /\ ret'.target = ret.val.object /\ ret'.arg = ret.arg) =>
          /\ ~ret'.threw
          /\ ret'.val # Ref(NoId)
          /\ SameSegment(segs'[ret'.val.object], segs'[ret'.target])]_vars

\* A window entirely before the first sample of a segment or entirely after
\* its last.
Outside(s, w) == w.endTime < s.startTime \/ w.startTime > LastSampleTime(s)

\* C14: a cut with a window that lies entirely before the data's start or
\* entirely after its end returns null and throws nothing, on a segment and on
\* a Seismogram.
C14_CutOutsideIsNull ==
    /\ \A i \in SegIds : \A w \in Windows :
          Outside(segs[i], w) =>
              ~Seg_cut(segs[i], w).threw /\ Seg_cut(segs[i], w).val = Null
    /\ (ret.op = "cut" /\ seis[ret.target].segmentArray # <<>>
          /\ \A i \in Range(seis[ret.target].segmentArray) :
                Outside(segs[i], ret.arg)) =>
          ~ret.threw /\ ret.val = Ref(NoId)

\* A window, its start not after its end, that reaches into the span of the
\* samples of a segment.
Overlaps(s, w) ==
    /\ Seg_numPoints(s) > 0
    /\ w.startTime <= w.endTime
    /\ ~Outside(s, w)

\* C15: for every window that overlaps a segment, the slice bounds cut
\* computes satisfy 0 <= sIndex < eIndex <= number of samples, sIndex being
\* floor(elapsedMillis * sampleRate / 1000); the cut is non-null, holds at
\* least one sample and starts sIndex / sampleRate after the original start.
C15_SliceBoundsInRange ==
    \A i \in SegIds : \A w \in SegmentWindows :
        (Overlaps(segs[i], w) /\ ~Seg_cut(segs[i], w).threw) =>
            /\ cut_sIndex(segs[i], w) =
                 (IF w.startTime > segs[i].startTime
                  THEN ((w.startTime - segs[i].startTime) * segs[i].sampleRate)
                           \div 1000
                  ELSE 0)
            /\ 0 <= cut_sIndex(segs[i], w)
            /\ cut_sIndex(segs[i], w) <
                 cut_eIndex(segs[i], w, Seg_numPoints(segs[i]),
                            Seg_endTime(segs[i]).val)
            /\ cut_eIndex(segs[i], w, Seg_numPoints(segs[i]),
                          Seg_endTime(segs[i]).val) <= Seg_numPoints(segs[i])
            /\ Seg_cut(segs[i], w).val # Null
            /\ Len(Seg_cut(segs[i], w).val.y.data) >= 1
            /\ Seg_cut(segs[i], w).val.startTime =
                 AddSeconds(segs[i].startTime, cut_sIndex(segs[i], w),
                            segs[i].sampleRate)

\* What the claim lists of a segment besides isEncoded(): sample values,
\* start time, sample rate and identity codes.
Untouched(a, b) ==
    /\ SameSegment(a, b)
    /\ a.networkCode = b.networkCode
    /\ a.stationCode = b.stationCode
    /\ a.locationCode = b.locationCode
    /\ a.channelCode = b.channelCode

\* C16 as stated: a cut or trim leaves the object it is called on untouched:
\* the same segment list, and every segment with the same sample values,
\* start time, sample rate, identity codes and isEncoded() result as before.
C16_CutAndTrimLeaveReceiver ==
    [][ret'.op \in {"cut", "trim"} =>
          /\ \A j \in DOMAIN seis : seis'[j].segmentArray = seis[j].segmentArray
          /\ \A i \in DOMAIN segs :
                /\ Untouched(segs[i], segs'[i])
                /\ isEncoded(segs'[i]) = isEncoded(segs[i])]_vars

\* C16, amended: a cut or trim leaves the segment list and every segment's
\* sample values, start time, sample rate and identity codes as they were;
\* trim leaves isEncoded() as it was too, and cut can only turn it from true
\* to false (it decodes in place the segments it slices).
C16_CutDecodesOnly ==
    [][ret'.op \in {"cut", "trim"} =>
          /\ \A j \in DOMAIN seis : seis'[j].segmentArray = seis[j].segmentArray
          /\ \A i \in DOMAIN segs :
                /\ Untouched(segs[i], segs'[i])
                /\ isEncoded(segs'[i]) => isEncoded(segs[i])
                /\ ret'.op = "trim" => isEncoded(segs'[i]) = isEncoded(segs[i])]_vars

\* C16, its case: the first call on a Seismogram of two segments was a cut
\* that returned a Seismogram with a shortened piece of the first segment, and
\* the first segment, built from handles, is now decoded with both samples.
C16_Witness ==
    /\ steps = 1
    /\ ret.op = "cut"
    /\ ~ret.threw
    /\ ret.val # Ref(NoId)
    /\ Len(seis[ret.target].segmentArray) = 2
    /\ decodeCalls[seis[ret.target].segmentArray[1]] = <<1>>
    /\ ~isEncoded(segs[seis[ret.target].segmentArray[1]])
    /\ Len(Samples(segs[seis[ret.target].segmentArray[1]])) = 2
    /\ Len(Samples(segs[seis[ret.val.object].segmentArray[1]])) = 1

\* The span of a segment's samples and the closed window have a time in
\* common.
SpanOverlaps(s, w) ==
    LastSampleTime(s) >= w.startTime /\ s.startTime <= w.endTime

\* C17: trim(w) returns a Seismogram of exactly the segments whose span
\* [startTime, endTime] overlaps the window, the same segment objects in their
\* original order, and null when no segment overlaps.
C17_TrimKeepsOverlapping ==
    (ret.op = "trim" /\ ~ret.threw) =>
        IF SelectSeq(seis[ret.target].segmentArray,
                     LAMBDA i : SpanOverlaps(segs[i], ret.arg)) = <<>>
        THEN ret.val = Ref(NoId)
        ELSE /\ ret.val # Ref(NoId)
             /\ seis[ret.val.object].segmentArray =
                    SelectSeq(seis[ret.target].segmentArray,
                              LAMBDA i : SpanOverlaps(segs[i], ret.arg))

\* The samples of the segments from index k on, one after the other.
RECURSIVE AllSamples(_, _)
AllSamples(segmentArray, k) ==
    IF k > Len(segmentArray) THEN <<>>
    ELSE Samples(segs[segmentArray[k]]) \o AllSamples(segmentArray, k + 1)

\* C18: merge() returns one typed array of numPoints samples, the samples of
\* all segments one after the other in segment order, of the kind (Int32,
\* Float32, Float64) of the first segment's sample array.
C18_MergeConcatenates ==
    (ret.op = "merge" /\ ~ret.threw) =>
        /\ ret.val.kind = segs[seis[ret.target].segmentArray[1]].y.kind
        /\ Len(ret.val.data) = Seis_numPoints(Cur, ret.target)
        /\ ret.val.data = AllSamples(seis[ret.target].segmentArray, 1)

\* The sample arrays of the segments of Seismogram j are not all of one kind.
MixedWidths(j) ==
    \E i, k \in Range(seis[j].segmentArray) :
        /\ segs[i].y # Null
        /\ segs[k].y # Null
        /\ segs[i].y.kind # segs[k].y.kind

\* C19: merge() throws when the segments' sample arrays are not all of the
\* same numeric width.
C19_MergeRejectsMixedWidths ==
    (ret.op = "merge" /\ MixedWidths(ret.target)) => ret.threw

\* The segments of Seismogram j are contiguous by the test of C10.
ContiguousNow(j) ==
    \A k \in 1..(Len(seis[j].segmentArray) - 1) :
        Adjacent(segs[seis[j].segmentArray[k]], segs[seis[j].segmentArray[k + 1]])

\* C20: in every reachable state a read of y on a Seismogram whose segments
\* are not contiguous throws.
C20_ReadOfGappyThrows ==
    \A j \in SeisIds : ~ContiguousNow(j) => Seis_y(Cur, j).threw


\* C21: whenever isContiguous() has just returned true on a Seismogram, a read
\* of y or an fftForward that follows at once on it succeeds, and the y read
\* has exactly numPoints samples.
C21_ContiguousThenYAndFft ==
    [][(/\ ret.op = "isContiguous"
        /\ ret.val = Boolean(TRUE)
        /\ ret'.target = ret.target
        /\ ret'.op \in {"y", "fftForward"})
       => /\ ~ret'.threw
          /\ ret'.op = "y" => Len(ret'.val.data) = Seis_numPoints(CurNext, ret'.target)]_vars

\* v is the least (greatest) of the numbers of sequence s.
IsMin(v, s) == v \in Range(s) /\ \A x \in Range(s) : ~Less(x, v)
IsMax(v, s) == v \in Range(s) /\ \A x \in Range(s) : ~Less(v, x)

\* C22: findMinMax() of a Seismogram returns the minimum and the maximum over
\* all samples of all its segments (the fold of the segments' findMinMax
\* through the accumulator being that of the concatenation).
C22_MinMaxOverAllSamples ==
    (/\ ret.op = "findMinMax"
     /\ ret.arg = Null
     /\ ~ret.threw
     /\ AllSamples(seis[ret.target].segmentArray, 1) # <<>>
     /\ NaN \notin Range(AllSamples(seis[ret.target].segmentArray, 1)))
    => /\ IsMin(ret.val.data[1], AllSamples(seis[ret.target].segmentArray, 1))
       /\ IsMax(ret.val.data[2], AllSamples(seis[ret.target].segmentArray, 1))

\* Every segment of Seismogram j holds at least one sample.
NoEmptySegment(j) ==
    \A i \in Range(seis[j].segmentArray) : Samples(segs[i]) # <<>>

\* C23: mean() of a Seismogram whose segments each hold at least one sample
\* is the sum of all samples of all segments divided by numPoints.
C23_MeanIsSumOverNumPoints ==
    (ret.op = "mean" /\ ~ret.threw /\ NoEmptySegment(ret.target))
    => ret.val = Over(SumOf(AllSamples(seis[ret.target].segmentArray, 1)),
                      Seis_numPoints(Cur, ret.target))

\* mean() has returned on a Seismogram of two segments of different lengths,
\* where the weights of the segments matter.
C23_Witness ==
    /\ ret.op = "mean"
    /\ ~ret.threw
    /\ NoEmptySegment(ret.target)
    /\ Len(seis[ret.target].segmentArray) = 2
    /\ Seg_numPoints(segs[seis[ret.target].segmentArray[1]])
           # Seg_numPoints(segs[seis[ret.target].segmentArray[2]])
    /\ ret.val = Ratio(5, 1)

\* The sum of the counts the handles declare, from handle k on.
RECURSIVE DeclaredCount(_, _)
DeclaredCount(cs, k) ==
    IF k > Len(cs) THEN 0 ELSE cs[k].numSamples + DeclaredCount(cs, k + 1)

\* A handle of the list holds fewer values than it declares.
HoldsTooFew(cs) == \E k \in DOMAIN cs : Len(cs[k].data) < cs[k].numSamples

Observed(sg, ss, j) ==
    [fields |-> ss[j],
     segments |-> [k \in DOMAIN ss[j].segmentArray |->
                     [sg[ss[j].segmentArray[k]] EXCEPT !.endTime_cache = Null,
                                                       !.endTime_cache_numPoints = 0,
                                                       !.yBuffer = NoId]]]

\* The calls that write: a sample, a start time or sample rate, a code, the
\* decoding of a read of y, an append.
Writes == {"write sample", "assign", "set code", "y", "append"}

\* C27: clone() yields an independent copy: a write that follows it on the
\* clone (a sample value, a start time, a sample rate, an identity code, the
\* decoding of a read, an append) changes nothing observable on the
\* original, and a write on the original nothing on the clone.
C27_CloneIsIndependent ==
    [][(ret.op = "clone" /\ ~ret.threw /\ ret'.op \in Writes)
       => /\ ret'.target = ret.val.object
               => Observed(segs', seis', ret.target) = Observed(segs, seis, ret.target)
          /\ ret'.target = ret.target
               => Observed(segs', seis', ret.val.object)
                     = Observed(segs, seis, ret.val.object)]_vars

\* A sample has been written in a Seismogram of two segments, and another
\* Seismogram of other segment objects holds the samples as they were, with
\* the same times, rates and codes: the one is the clone of the other.
C27_Witness ==
    /\ ret.op = "write sample"
    /\ ~ret.threw
    /\ Len(seis[ret.target].segmentArray) = 2
    /\ \E o \in SeisIds :
        /\ Range(seis[o].segmentArray) \cap Range(seis[ret.target].segmentArray) = {}
        /\ Len(seis[o].segmentArray) = 2
        /\ \A k \in 1..2 :
             /\ Untouched([segs[seis[o].segmentArray[k]] EXCEPT !.y.data[1] = 9],
                          [segs[seis[ret.target].segmentArray[k]] EXCEPT !.y.data[1] = 9])
             /\ segs[seis[o].segmentArray[k]].y.data[1] # 9
        /\ \E k \in 1..2 : segs[seis[ret.target].segmentArray[k]].y.data[1] = 9

\* C24: the read of min, max or mean that follows an assignment to seismogram
\* returns the statistic of the Seismogram just assigned (0 when null was
\* assigned), not one cached before; and between two assignments
\* calcStats() computes the statistics at most once.
C24_StatsFollowAssignment ==
    [][/\ (/\ ret.op = "set seismogram"
           /\ ret'.op \in StatNames
           /\ ret'.target = ret.target
           /\ ~ret'.threw)
          => ret'.val = [number |-> calcStats(Cur, sdds[ret.target]).val[ret'.op]]
       /\ \A n \in DOMAIN sdds' : sdds'[n].calcs <= 1]_vars

\* The display data made of the first Seismogram holds the second, and a
\* read of max has returned a maximum that is not the first's.
C24_Witness ==
    /\ ret.op = "max"
    /\ ~ret.threw
    /\ ret.target = 1
    /\ sdds[1].seismogram = 2
    /\ sdds[1].calcs = 1
    /\ ~calcStats(Cur, fromSeismogram(Cur, 1)).threw
    /\ ret.val.number # calcStats(Cur, fromSeismogram(Cur, 1)).val.max

\* The fields of a display data but _seismogram and _statsCache.
OtherFields(d) == [d EXCEPT !.seismogram = NoId, !.statsCache = Null, !.calcs = 0]

\* C30: cloneWithNewSeismogram(seis) returns a new display data whose
\* seismogram is seis, whose statistics cache is empty or holds the
\* statistics of seis, and whose other fields are those of the original;
\* and the Seismogram of a clone() is not the original's Seismogram object.
C30_CloneHoldsNewSeismogram ==
    /\ (ret.op = "cloneWithNewSeismogram" /\ ~ret.threw)
       => /\ sdds[ret.val.object].seismogram = ret.arg.object
          /\ OtherFields(sdds[ret.val.object]) = OtherFields(sdds[ret.target])
          /\ \/ sdds[ret.val.object].statsCache = Null
             \/ sdds[ret.val.object].statsCache
                   = calcStats(Cur, Sdd_set_seismogram(sdds[ret.target],
                                                       ret.arg.object)).val
    /\ (ret.op = "clone" /\ ~ret.threw /\ sdds[ret.target].seismogram # NoId)
       => sdds[ret.val.object].seismogram # sdds[ret.target].seismogram

\* The reflected CRC-32C bit by bit: each byte is added into the low end of
\* the register and eight bits are shifted out.
RECURSIVE BitwiseCrc32c(_, _, _)
BitwiseCrc32c(data, k, reg) ==
    IF k > Len(data) THEN Xor32(reg, AllOnes)
    ELSE Let(ShiftOutBits(Xor32(reg, Word(0, data[k])), 8),
             LAMBDA r : BitwiseCrc32c(data, k + 1, r))

C28_ConnectedOnlyWithWebSocket ==
    ret.op = "isConnected"
    => (ret.val.boolean <=> (\E k \in SocketIds : dl.conn.webSocket = Ref(k)))

\* The response a promise was settled with is the response to its command.
SettledByOwnResponse(p) ==
    (dl.promises[p].state # "pending" /\ dl.promises[p].value.for # NoId)
    => dl.promises[p].value.for = p

\* C29: every promise of awaitDLCommand / awaitDLBinary is settled with the
\* server's response to its own command, also when a second command is
\* awaited before the first response has arrived, and none is pending once
\* its response has been received.
C29_SettledByOwnResponse ==
    \A p \in DOMAIN dl.promises :
        /\ SettledByOwnResponse(p)
        /\ dl.promises[p].received => dl.promises[p].state # "pending"

\* C31: isContiguous() is a pure query: the call leaves the Seismogram and
\* every segment's startTime and endTime as they read before it, and a call
\* that follows another at once on the same Seismogram returns the same result.
C31_IsContiguousIsPure ==
    [][ret'.op = "isContiguous"
       => /\ seis' = seis
          /\ \A i \in SegIds :
                /\ segs'[i].startTime = segs[i].startTime
                /\ Seg_endTime(segs'[i]).val = Seg_endTime(segs[i]).val
          /\ (ret.op = "isContiguous" /\ ret.target = ret'.target)
             => ret'.val = ret.val]_vars

\* C32: whenever a read of Seismogram.y returns, the array returned has
\* numPoints samples and is merge() of the segments the Seismogram holds
\* then, whatever reads of y, append and break came before: the cached
\* merged array is never stale.
C32_YIsMergeOfSegments ==
    \A j \in SeisIds :
        ~Seis_y(Cur, j).threw
        => /\ Len(Seis_y(Cur, j).val.data) = Seis_numPoints(Cur, j)
           /\ ~merge(Cur, j).threw
           /\ Seis_y(Cur, j).val = merge(Cur, j).val

\* How many samples of value v at time t the segments of segmentArray hold,
\* sg being the heap of segments.
SampleCopies(sg, segmentArray, t, v) ==
    Cardinality(UNION {{<<m, k>> : k \in {n \in DOMAIN Samples(sg[segmentArray[m]]) :
                                          /\ timeOfSample(sg[segmentArray[m]], n - 1) = t
                                          /\ Samples(sg[segmentArray[m]])[n] = v}} :
                       m \in DOMAIN segmentArray})

\* C33: break(duration) with a positive duration repartitions the data
\* without loss or duplication: numPoints is unchanged, every original
\* sample is held as often after the call as before it, at its time, and no
\* resulting segment spans more than duration.
C33_BreakRepartitions ==
    [][(ret'.op = "break" /\ ~ret'.threw /\ ret'.arg.number > 0)
       => /\ Seis_numPoints(CurNext, ret'.target) = Seis_numPoints(Cur, ret'.target)
          /\ \A m \in DOMAIN seis[ret'.target].segmentArray :
               \A k \in DOMAIN Samples(segs[seis[ret'.target].segmentArray[m]]) :
                 SampleCopies(segs', seis'[ret'.target].segmentArray,
                              timeOfSample(segs[seis[ret'.target].segmentArray[m]], k - 1),
                              Samples(segs[seis[ret'.target].segmentArray[m]])[k])
                 = SampleCopies(segs, seis[ret'.target].segmentArray,
                                timeOfSample(segs[seis[ret'.target].segmentArray[m]], k - 1),
                                Samples(segs[seis[ret'.target].segmentArray[m]])[k])
          /\ \A m \in DOMAIN seis'[ret'.target].segmentArray :
               LastSampleTime(segs'[seis'[ret'.target].segmentArray[m]])
                 - segs'[seis'[ret'.target].segmentArray[m]].startTime
               <= ret'.arg.number]_vars

\* C34: break(duration) terminates for every Seismogram and every duration,
\* a zero-length one included: a call that has entered the loop returns.
C34_BreakTerminates == (brk.pc = "loop") ~> (brk.pc = "done")

\* C35: the close event of a websocket that close() has closed and a later
\* connect() has replaced leaves the connection's current websocket and its
\* mode as they are.
C35_StaleCloseLeavesConnection ==
    [][(/\ ret'.op = "onclose"
        /\ dl.sockets[ret'.target].closeCalled
        /\ Truthy(dl.conn.webSocket)
        /\ dl.conn.webSocket # Ref(ret'.target))
       => /\ dl'.conn.webSocket = dl.conn.webSocket
          /\ dl'.conn.mode = dl.conn.mode]_vars

\* C36: whenever mode is STREAM a websocket is held; a stream() call made
\* while the websocket is closed sends nothing and leaves the mode as it was.
C36_StreamModeHasWebSocket ==
    [][/\ dl'.conn.mode = STREAM_MODE => Truthy(dl'.conn.webSocket)
       /\ (ret'.op = "stream" /\ dl.conn.webSocket = Null)
          => /\ dl'.conn.mode = dl.conn.mode
             /\ dl'.sockets = dl.sockets]_vars

\* The STREAM and ENDSTREAM commands sent on a WebSocket, in order.
StreamCommands(socket) ==
    SelectSeq(socket.sent, LAMBDA c : c.command \in {STREAM, ENDSTREAM})

\* C37: on each websocket the STREAM and ENDSTREAM commands sent alternate
\* strictly, beginning with STREAM, whatever the interleaving of stream(),
\* endStream(), close() and close events; and close() while streaming sends
\* ENDSTREAM before it closes the websocket.
C37_StreamCommandsAlternate ==
    [][/\ \A k \in DOMAIN dl'.sockets :
            \A n \in DOMAIN StreamCommands(dl'.sockets[k]) :
                StreamCommands(dl'.sockets[k])[n].command
                    = IF n % 2 = 1 THEN STREAM ELSE ENDSTREAM
       /\ (/\ ret'.op = "close"
           /\ Truthy(dl.conn.webSocket)
           /\ Len(StreamCommands(dl.sockets[dl.conn.webSocket.object])) % 2 = 1)
          => /\ Len(StreamCommands(dl'.sockets[dl.conn.webSocket.object])) % 2 = 0
             /\ dl'.sockets[dl.conn.webSocket.object].closeCalled]_vars

\* The promises of awaited commands that have not been settled.
Pending(d) == {p \in DOMAIN d.promises : d.promises[p].state = "pending"}

\* C38: handle() routes a message by its header: a PACKET message invokes
\* packetHandler once, errorHandler only for an exception of the handler,
\* throws nothing and settles no pending awaited command; an ERROR message
\* rejects the pending awaited command, if there is one, and invokes
\* errorHandler exactly once; an OK message resolves the pending awaited
\* command, if there is one, and otherwise changes nothing.
C38_HandleRoutesByHeader ==
    [][ret'.op = "onmessage"
       => /\ ret'.arg.kind = "PACKET"
             => /\ ~ret'.threw
                /\ dl'.conn.packets = dl.conn.packets + 1
                /\ dl'.conn.errors \in {dl.conn.errors, dl.conn.errors + 1}
                /\ Pending(dl') = Pending(dl)
          /\ ret'.arg.kind = "ERROR"
             => /\ dl'.conn.errors = dl.conn.errors + 1
                /\ Pending(dl) # {}
                   => \E p \in Pending(dl) : dl'.promises[p].state = "rejected"
          /\ ret'.arg.kind = "OK"
             => IF Pending(dl) # {}
                THEN \E p \in Pending(dl) : dl'.promises[p].state = "resolved"
                ELSE dl'.conn = dl.conn /\ Pending(dl') = Pending(dl)]_vars


(***************************************************************************)
(* class FFTResult, src/src/fft.ts: the packed and the complex form of a   *)
(* transform.  A Float32Array is the sequence of its elements, element i   *)
(* of the source being element i + 1 here; the values checked are small    *)
(* integers, which a Float32Array holds exactly.  An index that the source *)
(* computes by a division by two is kept as twice its value.               *)
(***************************************************************************)
\* createComplex(real, imag) of oregondsputil: real() and imag() return what
\* was given.
createComplex(real, imag) == [real |-> real, imag |-> imag]

\* a[twice / 2] of a Float32Array: undefined unless twice / 2 is an index of it
Float32Array_get(a, twice) ==
    IF twice % 2 = 0 /\ twice \div 2 < Len(a)
    THEN Number(a[twice \div 2 + 1])
    ELSE Unassigned

\* a[twice / 2] = v on a Float32Array: nothing is stored unless twice / 2 is
\* an index of it, and undefined is stored as NaN.
Float32Array_set(a, twice, v) ==
    IF twice % 2 = 0 /\ twice \div 2 < Len(a)
    THEN [a EXCEPT ![twice \div 2 + 1] = IF v = Unassigned THEN NaN ELSE v.number]
    ELSE a

\* new FFTResult(origLength, sampleRate).  amp and phase hold the modulus and
\* the argument of each complex value; their length is kept, as ampLength.
FFTResult(origLength, sampleRate) ==
    [origLength |-> origLength, sampleRate |-> sampleRate,
     packedFreq |-> Unassigned, complex |-> Unassigned,
     numPoints |-> Unassigned, ampLength |-> Unassigned]

\* recalcFromPackedFreq(): complex[0] and complex[L/2] are real, complex[i]
\* is packedFreq[i] + i packedFreq[L - i] for every 1 <= i < L/2.
recalcFromPackedFreq(f) ==
    Let(Len(f.packedFreq), LAMBDA L :
      [f EXCEPT
         !.complex =
             <<createComplex(Float32Array_get(f.packedFreq, 0), Number(0))>>
             \o [i \in 1..((L + 1) \div 2 - 1) |->
                     createComplex(Float32Array_get(f.packedFreq, 2 * i),
                                   Float32Array_get(f.packedFreq, 2 * (L - i)))]
             \o <<createComplex(Float32Array_get(f.packedFreq, L), Number(0))>>,
         !.ampLength = L \div 2 + 1,
         !.numPoints = L])

\* The loop of recalcFromComplex() from i on, N being complex.length.
RECURSIVE recalcFromComplex_loop(_, _, _)
recalcFromComplex_loop(modFreq, complex, i) ==
    IF ~(i < Len(complex) - 1) THEN modFreq
    ELSE Let(Float32Array_set(
                 Float32Array_set(modFreq, 2 * i, complex[i + 1].real),
                 2 * (Len(complex) - i), complex[i + 1].imag),
             LAMBDA m : recalcFromComplex_loop(m, complex, i + 1))

\* recalcFromComplex(): the array is made of N = complex.length elements.
recalcFromComplex(f) ==
    Let(Len(f.complex), LAMBDA N :
      Let(Float32Array_set(
              recalcFromComplex_loop(
                  Float32Array_set([k \in 1..N |-> 0], 0, f.complex[1].real),
                  f.complex, 1),
              N, f.complex[N].real),
          LAMBDA modFreq :
            [f EXCEPT !.packedFreq = modFreq, !.numPoints = Len(modFreq)]))

\* FFTResult.createFromPackedFreq(packedFreq, origLength, sampleRate)
createFromPackedFreq(packedFreq, origLength, sampleRate) ==
    recalcFromPackedFreq(
        [FFTResult(origLength, sampleRate) EXCEPT !.packedFreq = packedFreq])

\* FFTResult.createFromComplex(complexArray, origLength, sampleRate)
createFromComplex(complexArray, origLength, sampleRate) ==
    recalcFromPackedFreq(recalcFromComplex(
        [FFTResult(origLength, sampleRate) EXCEPT !.complex = complexArray]))

(***************************************************************************)
(* Calls of the factory methods of FFTResult on a packed array.            *)
(***************************************************************************)
\* The lengths of the packed arrays: the powers of two calcDFT pads to.
PackedLengths == {16, 32}

\* The packed arrays: the ramp 1, 2, ..., L and every array with two
\* elements that are not zero.
PackedArrays ==
    UNION {{[k \in 1..L |-> k]}
           \cup {[k \in 1..L |-> IF k = i THEN u ELSE IF k = j THEN v ELSE 0] :
                    i \in 1..L, j \in 1..L, u \in {1, 2}, v \in {1, 3}}
           : L \in PackedLengths}

OrigLengths == {10, 16}

\* A packed Float32Array has been filled; no other object exists.
InitFft ==
    /\ Starts(EmptyWorld, Ret("new Float32Array", NoId, Null, FALSE, Null))
    /\ sdds = <<>>
    /\ buf \in PackedArrays
    /\ dl = NoDataLink
    /\ brk = NoBreak

FftEnds(r) ==
    /\ ret' = r
    /\ UNCHANGED <<segs, seis, decodeCalls, decodeThrows, wasDecoded, steps,
                   sdds, buf, dl, brk>>

\* let a = FFTResult.createFromPackedFreq(buf, origLength, sampleRate)
Fft_CreateFromPackedFreq ==
    /\ ret.op = "new Float32Array"
    /\ \E origLength \in OrigLengths, sampleRate \in SampleRates :
        FftEnds(Ret("createFromPackedFreq", NoId,
                    [origLength |-> origLength, sampleRate |-> sampleRate], FALSE,
                    createFromPackedFreq(buf, origLength, sampleRate)))

\* FFTResult.createFromComplex(a.complex, origLength, sampleRate)
Fft_CreateFromComplex ==
    /\ ret.op = "createFromPackedFreq"
    /\ FftEnds(Ret("createFromComplex", NoId, ret.arg, FALSE,
                   createFromComplex(ret.val.complex, ret.arg.origLength,
                                     ret.arg.sampleRate)))

NextFft == Fft_CreateFromPackedFreq \/ Fft_CreateFromComplex

SpecFft == InitFft /\ [][NextFft]_vars

\* C39: the packed and the complex form round-trip: createFromComplex of
\* the complex array of createFromPackedFreq(p, n, r) has a packedFreq as
\* long as p, with the value of p at every index, and numPoints = p.length.
C39_PackedComplexRoundTrip ==
    ret.op = "createFromComplex"
    => /\ Len(ret.val.packedFreq) = Len(buf)
       /\ \A k \in DOMAIN ret.val.packedFreq \cap DOMAIN buf :
              ret.val.packedFreq[k] = buf[k]
       /\ ret.val.numPoints = Len(buf)

====
